---------------------------- MODULE Spec2Model ----------------------------
(***************************************************************************)
(* A model of the declaration layer of egglog-python                       *)
(* (python/egglog/egraph.py): the module classes _BaseModule / Module /    *)
(* EGraph, the type-annotation resolver, function / relation / constant /  *)
(* class registration, module composition and the push/pop scope stack.    *)
(*                                                                         *)
(* Python objects are records.  An object that the code shares by          *)
(* reference (a Declarations instance, a Module) is an entry of a heap     *)
(* variable and is named by its address; everything else is a value.       *)
(***************************************************************************)
EXTENDS Integers, Sequences, FiniteSets, TLC

VARIABLES
    declObjs,   \* heap of Declarations objects: address -> content
    modDecl,    \* EGraph._mod_decls._decl: address of the working Declarations
    declStack,  \* EGraph._decl_stack: sequence of addresses
    declsAttr,  \* EGraph._decls: the deep copy made by push() (a value, or None)
    egraph,     \* bindings.EGraph: [cur: commands in effect, stack: checkpoints]
    reports,    \* bindings.EGraph: the run report and extract report it holds
    sent,       \* commands handed to run_program by the last call, in order
    batches,    \* the run_program calls of the last call: one command list each
    returned,   \* what the last call returned (None if nothing, or if it raised)
    err,        \* outcome of the last call: "ok" or the exception raised
    lastOp,     \* the last call and its arguments
    snaps,      \* history: content of the working Declarations at each open push
    mods,       \* Module objects in creation order: address -> [flat, cmds]
    gBuilt,     \* an EGraph has been constructed from modules
    gFlat,      \* its _flatted_deps
    gRuns       \* the run_program batches of its construction, in order

vars == <<declObjs, modDecl, declStack, declsAttr, egraph, reports, sent, batches,
          returned, err, lastOp, snaps, mods, gBuilt, gFlat, gRuns>>

sessionVars == <<declObjs, modDecl, declStack, declsAttr, egraph, reports, sent,
                 batches, returned, err, lastOp, snaps>>
moduleVars == <<mods, gBuilt, gFlat, gRuns>>

----------------------------------------------------------------------------
(* Bounds of the model.                                                    *)

MaxDepth == 2     \* open push() scopes
MaxParams == 2    \* parameters of a registered function
MaxMods == 3      \* Module objects created
MaxOps == 5       \* Module objects created plus commands registered on them

----------------------------------------------------------------------------
(* Python values.                                                          *)

\* Every annotation / type-reference record has the fields k, name, args,
\* so that any two of them can be compared.
Obj(k, name, args) == [k |-> k, name |-> name, args |-> args]

None == Obj("None", "", <<>>)

\* typing.TypeVar objects, builtin / user Python classes, typing.Union[...],
\* runtime.RuntimeClass (what class_() returns for a registered sort) and
\* typing._GenericAlias (Cls[T, ...]).
TypeVarObj(n) == Obj("TypeVar", n, <<>>)
PyType(n) == Obj("type", n, <<>>)
UnionObj(members) == Obj("Union", "", members)
RuntimeClass(n) == Obj("RuntimeClass", n, <<>>)
GenericAlias(origin, as) == Obj("_GenericAlias", origin, as)

\* The literal kinds accepted in a promotion union: {int, str, float}.
LiteralTypes == {PyType("int"), PyType("str"), PyType("float")}

\* declarations.ClassTypeVarRef(index) and TypeRefWithVars(name, args).
ClassTypeVarRef(i) == Obj("ClassTypeVarRef", ToString(i), <<>>)
TypeRefWithVars(n, as) == Obj("TypeRef", n, as)

\* Results of a computation that may raise.
Ok(v) == [ok |-> TRUE, val |-> v, exc |-> "ok"]
Raise(e) == [ok |-> FALSE, val |-> None, exc |-> e]

\* list.index(x): the 0-based position of the first occurrence, or ValueError.
ListIndex(s, x) ==
    IF \E i \in 1..Len(s) : s[i] = x
    THEN Ok((CHOOSE i \in 1..Len(s) : s[i] = x /\ \A j \in 1..(i-1) : s[j] # x) - 1)
    ELSE Raise("ValueError")

\* runtime.class_to_ref(tp).to_var() for a RuntimeClass: the reference to the
\* sort by its name.
ClassToRefToVar(tp) == TypeRefWithVars(tp.name, <<>>)

----------------------------------------------------------------------------
(* _BaseModule._resolve_type_annotation.                                   *)
(* cls_typevars is the list of the enclosing class's TypeVars;             *)
(* cls_type_and_name is <<>> (None) or <<class object, class name>>.       *)

RECURSIVE ResolveTypeAnnotation(_, _, _)
RECURSIVE ResolveEach(_, _, _)

\* The generator of lines 447-450: the arguments are resolved left to right
\* and the first failure propagates.
ResolveEach(tps, cls_typevars, cls_type_and_name) ==
    IF tps = <<>> THEN Ok(<<>>)
    ELSE LET h == ResolveTypeAnnotation(Head(tps), cls_typevars, cls_type_and_name)
         IN  IF ~h.ok THEN h
             ELSE LET t == ResolveEach(Tail(tps), cls_typevars, cls_type_and_name)
                  IN  IF ~t.ok THEN t ELSE Ok(<<h.val>> \o t.val)

\* A union resolver that always takes the second member.
ResolveUnionSnd(tp, cls_typevars, cls_type_and_name) ==
    IF Len(tp.args) # 2 THEN Raise("TypeError")
    ELSE IF tp.args[1] \in LiteralTypes \/ tp.args[2] \in LiteralTypes
         THEN ResolveTypeAnnotation(tp.args[2], cls_typevars, cls_type_and_name)
         ELSE Raise("TypeError")

\* Lines 423-433: the Union branch.
ResolveUnion(tp, cls_typevars, cls_type_and_name) ==
    IF Len(tp.args) # 2 THEN Raise("TypeError")
    ELSE LET fst == tp.args[1]
             snd == tp.args[2]
         IN  IF fst \in LiteralTypes
             THEN ResolveTypeAnnotation(snd, cls_typevars, cls_type_and_name)
             ELSE IF snd \in LiteralTypes
             THEN ResolveTypeAnnotation(fst, cls_typevars, cls_type_and_name)
             ELSE Raise("TypeError")

\* A resolver that takes whatever it is given for a sort.
ResolveTypeAnnotationLenient(tp, cls_typevars, cls_type_and_name) ==
    IF tp.k = "Union" /\ tp.args # <<>>
    THEN ResolveTypeAnnotation(tp.args[Len(tp.args)], cls_typevars, cls_type_and_name)
    ELSE Ok(TypeRefWithVars(tp.name, <<>>))

\* Lines 415-455.
ResolveTypeAnnotation(tp, cls_typevars, cls_type_and_name) ==
    IF tp.k = "TypeVar" THEN
        LET i == ListIndex(cls_typevars, tp)
        IN  IF i.ok THEN Ok(ClassTypeVarRef(i.val)) ELSE i
    ELSE IF tp.k = "Union" THEN
        ResolveUnion(tp, cls_typevars, cls_type_and_name)
    ELSE IF cls_type_and_name # <<>> /\ tp = cls_type_and_name[1] THEN
        Ok(TypeRefWithVars(cls_type_and_name[2], <<>>))
    ELSE IF /\ cls_type_and_name # <<>>
            /\ tp.k = "_GenericAlias"
            /\ PyType(tp.name) = cls_type_and_name[1] THEN
        LET as == ResolveEach(tp.args, cls_typevars, cls_type_and_name)
        IN  IF as.ok THEN Ok(TypeRefWithVars(cls_type_and_name[2], as.val)) ELSE as
    ELSE IF tp.k = "RuntimeClass" THEN
        Ok(ClassToRefToVar(tp))
    ELSE Raise("TypeError")

\* TypeOrVarRef.to_just(): the reference with no type variable left in it
\* (fails on a ClassTypeVarRef).
RECURSIVE HasTypeVar(_)
HasTypeVar(tr) ==
    \/ tr.k = "ClassTypeVarRef"
    \/ \E i \in 1..Len(tr.args) : HasTypeVar(tr.args[i])

ToJust(tr) == IF HasTypeVar(tr) THEN Raise("NotImplementedError") ELSE Ok(tr)

----------------------------------------------------------------------------
(* declarations.py: callable references, FunctionDecl and the Declarations *)
(* registry with the registration calls egraph.py makes on it.             *)

\* FunctionRef(name), MethodRef(cls, name), ClassMethodRef(cls, name),
\* ConstantRef(name), ClassVariableRef(cls, name).
Ref(kind, cls, name) == [kind |-> kind, cls |-> cls, name |-> name]
FunctionRef(n) == Ref("Function", "", n)
MethodRef(c, n) == Ref("Method", c, n)
ClassMethodRef(c, n) == Ref("ClassMethod", c, n)
ConstantRef(n) == Ref("Constant", "", n)
ClassVariableRef(c, n) == Ref("ClassVariable", c, n)

FunctionDecl(arg_types, return_type, var_arg_type) ==
    [arg_types |-> arg_types, return_type |-> return_type,
     var_arg_type |-> var_arg_type]

\* An engine-visible name: the string name, or cls.name when cls # "".
EggName(cls, name) == [cls |-> cls, name |-> name]
NoName == EggName("", "")

\* CallableRef.generate_egg_name(): the default engine name of a ref.
GenerateEggName(ref) == EggName(ref.cls, ref.name)

\* A fresh Declarations(): sorts, callable declarations and the mapping of
\* callable refs to engine names, each as a set of entries.
EmptyDeclarations == [sorts |-> {}, fns |-> {}, egg |-> {}]

\* Commands of the engine protocol (bindings._Command).
Command(cmd, name, decl) == [cmd |-> cmd, name |-> name, decl |-> decl]
NoDecl == FunctionDecl(<<>>, None, None)
SortCmd(name) == Command("Sort", name, NoDecl)
FunctionCmd(name, decl) == Command("Function", name, decl)
AddRuleset(name) == Command("AddRuleset", EggName("", name), NoDecl)
PushCmd == Command("Push", NoName, NoDecl)
PopCmd == Command("Pop", NoName, NoDecl)

\* Result of a registration step: the registry afterwards, the commands
\* to send, the exception raised ("ok" if none), and the _process_commands
\* calls made, one command list each.  Done is a step whose commands the
\* caller hands to _process_commands in one call, Silent a step that
\* returns no commands and makes no call, Fail a step that raises.
Done(d, cmds) == [d |-> d, cmds |-> cmds, exc |-> "ok", calls |-> <<cmds>>]
Silent(d) == [d |-> d, cmds |-> <<>>, exc |-> "ok", calls |-> <<>>]
Fail(d, cmds, e) == [d |-> d, cmds |-> cmds, exc |-> e, calls |-> <<>>]

\* ModuleDeclarations.register_class(name, n_type_vars, egg_sort).
RegisterClass(d, name, n_type_vars, egg_sort) ==
    IF \E s \in d.sorts : s.name = name
    THEN IF \E s \in d.sorts : s.name = name /\ s.n_type_vars = n_type_vars
         THEN Done(d, <<>>)
         ELSE Fail(d, <<>>, "DeclarationError")
    ELSE LET egg == IF egg_sort = NoName THEN EggName("", name) ELSE egg_sort
         IN  Done([d EXCEPT !.sorts = @ \cup
                      {[name |-> name, n_type_vars |-> n_type_vars, egg |-> egg]}],
                  <<SortCmd(egg)>>)

\* Declarations.register_callable_ref(ref, egg_name): records the engine
\* name of a ref (registering it again under the same name changes nothing).
RegisterCallableRef(d, ref, egg_name) ==
    IF \E e \in d.egg : e.ref = ref
    THEN IF [ref |-> ref, egg |-> egg_name] \in d.egg
         THEN Silent(d)
         ELSE Fail(d, <<>>, "DeclarationError")
    ELSE Silent([d EXCEPT !.egg = @ \cup {[ref |-> ref, egg |-> egg_name]}])

\* ModuleDeclarations.register_function_callable(ref, fn_decl, egg_name, ...):
\* a ref registered again with the identical declaration is a no-op, with a
\* different one an error; a new ref must bring an engine name no other ref
\* has; otherwise the ref is recorded and its function command produced.
RegisterFunctionCallable(d, ref, fn_decl, egg_name) ==
    LET egg == IF egg_name = NoName THEN GenerateEggName(ref) ELSE egg_name
    IN  IF \E f \in d.fns : f.ref = ref
        THEN IF [ref |-> ref, decl |-> fn_decl] \in d.fns
             THEN Done(d, <<>>)
             ELSE Fail(d, <<>>, "DeclarationError")
        ELSE IF \E e \in d.egg : e.egg = egg /\ e.ref # ref
        THEN Fail(d, <<>>, "DeclarationError")
        ELSE Done([d EXCEPT !.fns = @ \cup {[ref |-> ref, decl |-> fn_decl]},
                            !.egg = @ \cup {[ref |-> ref, egg |-> egg]}],
                  <<FunctionCmd(egg, fn_decl)>>)

\* ModuleDeclarations.register_constant_callable(ref, type_ref, egg_name):
\* a constant is a nullary function of its type.
RegisterConstantCallable(d, ref, type_ref, egg_name) ==
    RegisterFunctionCallable(d, ref, FunctionDecl(<<>>, type_ref, None), egg_name)

----------------------------------------------------------------------------
(* _BaseModule._register_function.                                         *)

\* A Python function object, as seen by inspect.signature / get_type_hints:
\* its return annotation and its parameters (kind, annotation) in order.
Param(kind, ann) == [kind |-> kind, ann |-> ann]
\* A function object: its return annotation, its parameters, and whether
\* it is registered with a merge function.
Fn(ret, params) == [ret |-> ret, params |-> params, merge |-> FALSE]
WithMerge(fn) == [fn EXCEPT !.merge = TRUE]
Empty == Obj("empty", "", <<>>)     \* inspect.Parameter.empty
ClsMarker == Obj("cls", "", <<>>)   \* first_arg = "cls"

IsTypeOrVarRef(x) == x.k \in {"ClassTypeVarRef", "TypeRef"}

\* hints[name]: the annotation of a parameter (KeyError if it has none),
\* resolved.
ResolveHint(ann, cls_typevars, cls_type_and_name) ==
    IF ann = Empty THEN Raise("KeyError")
    ELSE ResolveTypeAnnotation(ann, cls_typevars, cls_type_and_name)

RECURSIVE ResolveHints(_, _, _)
ResolveHints(params, cls_typevars, cls_type_and_name) ==
    IF params = <<>> THEN Ok(<<>>)
    ELSE LET h == ResolveHint(Head(params).ann, cls_typevars, cls_type_and_name)
         IN  IF ~h.ok THEN h
             ELSE LET t == ResolveHints(Tail(params), cls_typevars, cls_type_and_name)
                  IN  IF ~t.ok THEN t ELSE Ok(<<h.val>> \o t.val)

\* The loop of lines 369-377 over the parameters from position i on:
\* the value of found_var_arg at its end, or the ValueError it raises.
RECURSIVE CheckKinds(_, _, _)
CheckKinds(params, i, found_var_arg) ==
    IF i > Len(params) THEN Ok(found_var_arg)
    ELSE IF found_var_arg THEN Raise("ValueError")
    ELSE IF params[i].kind = "VAR_POSITIONAL" THEN CheckKinds(params, i + 1, TRUE)
    ELSE IF params[i].kind # "POSITIONAL_OR_KEYWORD" THEN Raise("ValueError")
    ELSE CheckKinds(params, i + 1, found_var_arg)

\* Lines 379-384: the variadic parameter is split off and resolved, then the
\* remaining parameters are resolved in order.
SplitVarArg(params) == [var_arg_param |-> Head(params), params |-> Tail(params)]

\* Lines 354-387: the FunctionDecl of fn, or the exception raised on the way.
FunctionDeclOf(fn, first_arg, cls_typevars, is_init, cls_type_and_name) ==
    LET return_type ==
            IF is_init
            THEN IF IsTypeOrVarRef(first_arg) THEN Ok(first_arg) ELSE Raise("ValueError")
            ELSE ResolveTypeAnnotation(fn.ret, cls_typevars, cls_type_and_name)
        \* first, *params = params
        unpack == IF first_arg = None THEN Ok(fn.params)
                  ELSE IF fn.params = <<>> THEN Raise("ValueError")
                  ELSE IF Head(fn.params).ann # Empty THEN Raise("ValueError")
                  ELSE Ok(Tail(fn.params))
    IN  IF ~return_type.ok THEN return_type
        ELSE IF ~unpack.ok THEN unpack
        ELSE
        LET params == unpack.val
            found == CheckKinds(params, 1, FALSE)
        IN  IF ~found.ok THEN found
            ELSE
            LET split == IF found.val THEN SplitVarArg(params)
                         ELSE [var_arg_param |-> Param("", Empty), params |-> params]
                var_arg_type ==
                    IF found.val
                    THEN ResolveHint(split.var_arg_param.ann, cls_typevars,
                                     cls_type_and_name)
                    ELSE Ok(None)
            IN  IF ~var_arg_type.ok THEN var_arg_type
                ELSE
                LET arg_types == ResolveHints(split.params, cls_typevars,
                                              cls_type_and_name)
                    \* Lines 390-397: the type of the merge variables old, new.
                    merge_vars == IF fn.merge THEN ToJust(return_type.val)
                                  ELSE Ok(None)
                IN  IF ~arg_types.ok THEN arg_types
                    ELSE IF ~merge_vars.ok THEN merge_vars
                    ELSE Ok(FunctionDecl(
                             IF IsTypeOrVarRef(first_arg) /\ ~is_init
                             THEN <<first_arg>> \o arg_types.val
                             ELSE arg_types.val,
                             return_type.val, var_arg_type.val))

\* _register_function with default, cost, merge and on_merge all None: the
\* declaration is built and registered (lines 408-413); the commands are
\* what _process_commands is then given.
RegisterFunction(d, ref, egg_name, fn, first_arg, cls_typevars, is_init, cls_type_and_name) ==
    LET fn_decl == FunctionDeclOf(fn, first_arg, cls_typevars, is_init,
                                  cls_type_and_name)
    IN  IF ~fn_decl.ok THEN Fail(d, <<>>, fn_decl.exc)
        ELSE RegisterFunctionCallable(d, ref, fn_decl.val, egg_name)

----------------------------------------------------------------------------
(* _BaseModule._register_constant and _BaseModule._class.                  *)

\* r, then (unless r raised) n, the next step on the registry r left: the
\* commands accumulate in the order they are processed.
Then(r, n) ==
    IF r.exc # "ok" THEN r
    ELSE [d |-> n.d, cmds |-> r.cmds \o n.cmds, exc |-> n.exc,
          calls |-> r.calls \o n.calls]

\* A constant registration that resolves type variables and registers what
\* it gets.
RegisterConstantLoose(d, ref, tp, egg_name, cls_type_and_name) ==
    LET tr == ResolveTypeAnnotation(tp, <<TypeVarObj("T")>>, cls_type_and_name)
    IN  IF ~tr.ok THEN Fail(d, <<>>, tr.exc)
        ELSE RegisterConstantCallable(d, ref, tr.val, egg_name)

\* Lines 524-536.
RegisterConstant(d, ref, tp, egg_name, cls_type_and_name) ==
    LET tr == ResolveTypeAnnotation(tp, <<>>, cls_type_and_name)
    IN  IF ~tr.ok THEN Fail(d, <<>>, tr.exc)
        ELSE LET type_ref == ToJust(tr.val)
             IN  IF ~type_ref.ok THEN Fail(d, <<>>, type_ref.exc)
                 ELSE RegisterConstantCallable(d, ref, type_ref.val, egg_name)

\* Names of the literal sorts, whose __init__ is not registered.
LIT_CLASS_NAMES == {"i64", "String"}

\* A class handed to class_(): its name, its TypeVar parameters, its
\* ClassVar annotations <<name, type>> and its methods in definition order,
\* each [name, fn, is_classmethod, egg_fn].
Class(name, parameters, classvars, methods) ==
    [name |-> name, parameters |-> parameters, classvars |-> classvars,
     methods |-> methods]
Method(name, fn, is_classmethod, egg_fn) ==
    [name |-> name, fn |-> fn, is_classmethod |-> is_classmethod, egg_fn |-> egg_fn]

SlfTypeRef(cls) ==
    TypeRefWithVars(cls.name, [i \in 1..Len(cls.parameters) |-> ClassTypeVarRef(i - 1)])

ClsTypeAndName(cls) ==
    <<IF cls.name \in {"i64", "String"} THEN RuntimeClass(cls.name)
      ELSE PyType(cls.name), cls.name>>

\* Lines 170-175: the class variables, registered as constants.
RECURSIVE RegisterClassVars(_, _, _)
RegisterClassVars(d, cls, i) ==
    IF i > Len(cls.classvars) THEN Silent(d)
    ELSE LET r == RegisterConstant(d, ClassVariableRef(cls.name, cls.classvars[i][1]),
                                   cls.classvars[i][2], NoName,
                                   <<PyType(cls.name), cls.name>>)
         IN  Then(r, RegisterClassVars(r.d, cls, i + 1))

\* A method registration that hands the self type to every member.
RegisterMethodSelf(d, cls, m) ==
    LET is_init == m.name = "__init__"
        is_classmethod == m.is_classmethod \/ is_init
        ref == IF is_classmethod THEN ClassMethodRef(cls.name, m.name)
               ELSE MethodRef(cls.name, m.name)
    IN  RegisterFunction(d, ref, m.egg_fn, m.fn, SlfTypeRef(cls), cls.parameters,
                         is_init, ClsTypeAndName(cls))

\* Lines 178-222: one method.
RegisterMethod(d, cls, m) ==
    LET is_init == m.name = "__init__"
        is_classmethod == m.is_classmethod \/ is_init
        ref == IF is_classmethod THEN ClassMethodRef(cls.name, m.name)
               ELSE MethodRef(cls.name, m.name)
    IN  IF is_init /\ cls.name \in LIT_CLASS_NAMES THEN Silent(d)
        ELSE RegisterFunction(d, ref, m.egg_fn, m.fn,
                              IF is_classmethod /\ ~is_init THEN ClsMarker
                              ELSE SlfTypeRef(cls),
                              cls.parameters, is_init, ClsTypeAndName(cls))

RECURSIVE RegisterMethods(_, _, _)
RegisterMethods(d, cls, i) ==
    IF i > Len(cls.methods) THEN Silent(d)
    ELSE LET r == RegisterMethod(d, cls, cls.methods[i])
         IN  Then(r, RegisterMethods(r.d, cls, i + 1))

\* A _class that registers the methods before the class variables.
RegisterClassBodyMethodsFirst(d, cls, egg_sort) ==
    LET r1 == RegisterClass(d, cls.name, Len(cls.parameters), egg_sort)
        r2 == Then(r1, RegisterMethods(r1.d, cls, 1))
        r3 == Then(r2, RegisterClassVars(r2.d, cls, 1))
    IN  Then(r3, RegisterCallableRef(r3.d, MethodRef(cls.name, "__ne__"),
                                     EggName("", "!=")))

\* _class(cls, egg_sort): the sort, the class variables, the methods, then
\* the inequality method under the engine name "!=" (lines 224-225).
RegisterClassBody(d, cls, egg_sort) ==
    LET r1 == RegisterClass(d, cls.name, Len(cls.parameters), egg_sort)
        r2 == Then(r1, RegisterClassVars(r1.d, cls, 1))
        r3 == Then(r2, RegisterMethods(r2.d, cls, 1))
    IN  Then(r3, RegisterCallableRef(r3.d, MethodRef(cls.name, "__ne__"),
                                     EggName("", "!=")))

\* A relation() that writes its declaration into the registry itself,
\* without asking whether the ref is already declared.
RegisterRelationUnchecked(d, name, tps, egg_fn) ==
    LET arg_types == ResolveEach(tps, <<>>, <<>>)
        fn_decl == FunctionDecl(arg_types.val, TypeRefWithVars("Unit", <<>>), None)
        egg == IF egg_fn = NoName THEN GenerateEggName(FunctionRef(name)) ELSE egg_fn
    IN  IF ~arg_types.ok THEN Fail(d, <<>>, arg_types.exc)
        ELSE Done([d EXCEPT !.fns = @ \cup {[ref |-> FunctionRef(name), decl |-> fn_decl]},
                            !.egg = @ \cup {[ref |-> FunctionRef(name), egg |-> egg]}],
                  <<FunctionCmd(egg, fn_decl)>>)

\* relation(name, *tps, egg_fn): lines 499-504.
RegisterRelation(d, name, tps, egg_fn) ==
    LET arg_types == ResolveEach(tps, <<>>, <<>>)
    IN  IF ~arg_types.ok THEN Fail(d, <<>>, arg_types.exc)
        ELSE RegisterFunctionCallable(
                 d, FunctionRef(name),
                 FunctionDecl(arg_types.val, TypeRefWithVars("Unit", <<>>), None),
                 egg_fn)

----------------------------------------------------------------------------
(* The engine behind bindings.EGraph, at its interface: declarations take  *)
(* effect, Push checkpoints them, Pop rolls back to the last checkpoint.   *)
(* A Pop with no checkpoint is either refused with an error or ignored     *)
(* (lenient): the wrapper does not depend on which.                        *)

EmptyEGraph == [cur |-> {}, stack |-> <<>>]

\* A fresh engine holds neither a run report nor an extract report.
NoReports == [run |-> None, extract |-> None]

RunCommand(eg, c, lenient) ==
    IF c.cmd = "Push" THEN [eg |-> [eg EXCEPT !.stack = Append(@, eg.cur)], exc |-> "ok"]
    ELSE IF c.cmd = "Pop" THEN
        IF eg.stack = <<>>
        THEN [eg |-> eg, exc |-> IF lenient THEN "ok" ELSE "EggSmolError"]
        ELSE [eg |-> [cur |-> eg.stack[Len(eg.stack)],
                      stack |-> SubSeq(eg.stack, 1, Len(eg.stack) - 1)],
              exc |-> "ok"]
    ELSE [eg |-> [eg EXCEPT !.cur = @ \cup {c}], exc |-> "ok"]

RECURSIVE RunProgram(_, _, _)
RunProgram(eg, cmds, lenient) ==
    IF cmds = <<>> THEN [eg |-> eg, exc |-> "ok"]
    ELSE LET r == RunCommand(eg, Head(cmds), lenient)
         IN  IF r.exc # "ok" THEN r ELSE RunProgram(r.eg, Tail(cmds), lenient)

----------------------------------------------------------------------------
(* The live session: an EGraph and the calls made on it.                   *)

\* The working Declarations of the session.
Decl == declObjs[modDecl]

Op(op, name, arg) == [op |-> op, name |-> name, arg |-> arg]

\* A RuntimeClass object exists for the sorts class_() has registered.
RECURSIVE Exists(_)
Exists(ann) ==
    /\ ann.k = "RuntimeClass" => \E srt \in Decl.sorts : srt.name = ann.name
    /\ \A i \in 1..Len(ann.args) : Exists(ann.args[i])

FnExists(fn) ==
    /\ Exists(fn.ret)
    /\ \A i \in 1..Len(fn.params) : Exists(fn.params[i].ann)

\* A registration call on the EGraph: the registry object is updated in
\* place and EGraph._process_commands runs the commands on the engine.
Registered(r, op) ==
    /\ declObjs' = [declObjs EXCEPT ![modDecl] = r.d]
    /\ egraph' = RunProgram(egraph, r.cmds, FALSE).eg
    /\ sent' = r.cmds
    /\ batches' = r.calls
    /\ returned' = None
    /\ err' = r.exc
    /\ lastOp' = op
    /\ UNCHANGED <<modDecl, declStack, declsAttr, snaps, reports>>

class_(cls, egg_sort) ==
    /\ Registered(RegisterClassBody(Decl, cls, egg_sort), Op("class_", cls.name, cls))
    /\ UNCHANGED moduleVars

function(name, fn, egg_fn) ==
    /\ FnExists(fn)
    /\ Registered(RegisterFunction(Decl, FunctionRef(name), egg_fn, fn, None, <<>>,
                                   FALSE, <<>>),
                  Op("function", name, fn))
    /\ UNCHANGED moduleVars

relation(name, tps, egg_fn) ==
    /\ \A i \in 1..Len(tps) : Exists(tps[i])
    /\ Registered(RegisterRelation(Decl, name, tps, egg_fn), Op("relation", name, tps))
    /\ UNCHANGED moduleVars

constant(name, tp, egg_name) ==
    /\ Exists(tp)
    /\ Registered(RegisterConstant(Decl, ConstantRef(name), tp, egg_name, <<>>),
                  Op("constant", name, tp))
    /\ UNCHANGED moduleVars

\* A push() that checkpoints the engine without saving the working
\* Declarations on the session's stack.
push_unrecorded ==
    /\ Len(declStack) < MaxDepth
    /\ egraph' = RunProgram(egraph, <<PushCmd>>, FALSE).eg
    /\ declsAttr' = Decl
    /\ sent' = <<PushCmd>>
    /\ batches' = <<(<<PushCmd>>)>>
    /\ returned' = None
    /\ err' = "ok"
    /\ lastOp' = Op("push", "", <<>>)
    /\ UNCHANGED <<declObjs, modDecl, declStack, snaps, reports>>
    /\ UNCHANGED moduleVars

\* EGraph.push (lines 719-725): the engine checkpoints, the working
\* Declarations object itself goes on the stack, and its deep copy is stored
\* in the attribute _decls.
push ==
    /\ Len(declStack) < MaxDepth
    /\ egraph' = RunProgram(egraph, <<PushCmd>>, FALSE).eg
    /\ declStack' = Append(declStack, modDecl)
    /\ declsAttr' = Decl
    /\ snaps' = Append(snaps, Decl)
    /\ sent' = <<PushCmd>>
    /\ batches' = <<(<<PushCmd>>)>>
    /\ returned' = None
    /\ err' = "ok"
    /\ lastOp' = Op("push", "", <<>>)
    /\ UNCHANGED <<declObjs, modDecl, reports>>
    /\ UNCHANGED moduleVars

\* A pop() that, finding the stack empty, starts over from fresh
\* Declarations instead of raising.
pop_or_reset ==
    LET r == RunProgram(egraph, <<PopCmd>>, TRUE)
    IN  /\ sent' = <<PopCmd>>
        /\ batches' = <<(<<PopCmd>>)>>
        /\ returned' = None
        /\ lastOp' = Op("pop", "", <<>>)
        /\ egraph' = r.eg
        /\ err' = "ok"
        /\ IF declStack = <<>>
           THEN /\ declObjs' = [declObjs EXCEPT ![modDecl] = EmptyDeclarations]
                /\ UNCHANGED <<modDecl, declStack, snaps>>
           ELSE /\ modDecl' = declStack[Len(declStack)]
                /\ declStack' = SubSeq(declStack, 1, Len(declStack) - 1)
                /\ snaps' = SubSeq(snaps, 1, Len(snaps) - 1)
                /\ UNCHANGED declObjs
        /\ UNCHANGED <<declsAttr, reports>>
        /\ UNCHANGED moduleVars

\* A pop() that looks at its own stack first and, finding it empty, raises
\* without sending anything.
pop_checked ==
    \E lenient \in BOOLEAN :
        LET r == RunProgram(egraph, <<PopCmd>>, lenient)
        IN  /\ returned' = None
            /\ lastOp' = Op("pop", "", <<>>)
            /\ IF declStack = <<>>
               THEN /\ err' = "IndexError"
                    /\ sent' = <<>>
                    /\ batches' = <<>>
                    /\ UNCHANGED <<egraph, modDecl, declStack, snaps>>
               ELSE /\ sent' = <<PopCmd>>
                    /\ batches' = <<(<<PopCmd>>)>>
                    /\ egraph' = r.eg
                    /\ err' = r.exc
                    /\ modDecl' = declStack[Len(declStack)]
                    /\ declStack' = SubSeq(declStack, 1, Len(declStack) - 1)
                    /\ snaps' = SubSeq(snaps, 1, Len(snaps) - 1)
            /\ UNCHANGED <<declObjs, declsAttr, reports>>
            /\ UNCHANGED moduleVars

\* EGraph.pop (lines 727-732): the engine rolls back, then the top of the
\* stack becomes the working Declarations (list.pop() raises IndexError on
\* an empty list, before the assignment).
pop ==
    \E lenient \in BOOLEAN :
        LET r == RunProgram(egraph, <<PopCmd>>, lenient)
        IN  /\ sent' = <<PopCmd>>
            /\ batches' = <<(<<PopCmd>>)>>
            /\ returned' = None
            /\ lastOp' = Op("pop", "", <<>>)
            /\ egraph' = r.eg
            /\ IF r.exc # "ok"
               THEN /\ err' = r.exc
                    /\ UNCHANGED <<modDecl, declStack, snaps>>
               ELSE IF declStack = <<>>
               THEN /\ err' = "IndexError"
                    /\ UNCHANGED <<modDecl, declStack, snaps>>
               ELSE /\ err' = "ok"
                    /\ modDecl' = declStack[Len(declStack)]
                    /\ declStack' = SubSeq(declStack, 1, Len(declStack) - 1)
                    /\ snaps' = SubSeq(snaps, 1, Len(snaps) - 1)
            /\ UNCHANGED <<declObjs, declsAttr, reports>>
            /\ UNCHANGED moduleVars

----------------------------------------------------------------------------
(* The EGraph as a context manager: __enter__ and __exit__ (lines          *)
(* 734-741) around the body of a `with` statement.                         *)

\* The session fields a `with` statement works on, with the
\* _process_commands calls made so far and the exception in flight.
Session ==
    [objs |-> declObjs, mod |-> modDecl, stack |-> declStack, attr |-> declsAttr,
     eg |-> egraph, snaps |-> snaps, calls |-> <<>>, exc |-> "ok"]

\* EGraph.push (lines 719-725) on a session value.
PushOn(s) ==
    [s EXCEPT !.eg = RunProgram(s.eg, <<PushCmd>>, FALSE).eg,
              !.stack = Append(s.stack, s.mod),
              !.attr = s.objs[s.mod],
              !.snaps = Append(s.snaps, s.objs[s.mod]),
              !.calls = Append(s.calls, <<PushCmd>>)]

\* EGraph.pop (lines 727-732) on a session value, r being the outcome of
\* the Pop on the engine.
PopDone(s, r) ==
    IF r.exc # "ok" THEN [s EXCEPT !.calls = Append(s.calls, <<PopCmd>>), !.exc = r.exc]
    ELSE IF s.stack = <<>>
    THEN [s EXCEPT !.eg = r.eg, !.calls = Append(s.calls, <<PopCmd>>),
                   !.exc = "IndexError"]
    ELSE [s EXCEPT !.eg = r.eg, !.calls = Append(s.calls, <<PopCmd>>),
                   !.mod = s.stack[Len(s.stack)],
                   !.stack = SubSeq(s.stack, 1, Len(s.stack) - 1),
                   !.snaps = SubSeq(s.snaps, 1, Len(s.snaps) - 1)]

PopOn(s) == PopDone(s, RunProgram(s.eg, <<PopCmd>>, FALSE))

\* EGraph.__enter__ (lines 734-735): push(); the method returns None.
enter(s) == PushOn(s)

\* An __exit__ that returns a true value, which makes `with` swallow the
\* body's exception.
exit_suppressing(s) == [s |-> PopOn(s), suppress |-> TRUE]

\* EGraph.__exit__ (lines 740-741): pop(), whatever exc_type is; the method
\* returns None, so the `with` statement re-raises the body's exception.
exit(s) == [s |-> PopOn(s), suppress |-> FALSE]

\* The session after a registration of the body with outcome r.
BodyRegistered(s, r) ==
    [s EXCEPT !.objs = [s.objs EXCEPT ![s.mod] = r.d],
              !.eg = RunProgram(s.eg, r.cmds, FALSE).eg,
              !.calls = s.calls \o r.calls,
              !.exc = r.exc]

\* One statement of the body: a registration on the EGraph, or a raise.
BodyStatement(s, st) ==
    IF st.op = "raise" THEN [s EXCEPT !.exc = st.name]
    ELSE BodyRegistered(s, IF st.op = "class_"
                           THEN RegisterClassBody(s.objs[s.mod], st.arg, NoName)
                           ELSE RegisterRelation(s.objs[s.mod], st.name, st.arg, NoName))

\* The body runs until a statement raises.
RECURSIVE Body(_, _)
Body(s, stmts) ==
    IF stmts = <<>> \/ s.exc # "ok" THEN s
    ELSE Body(BodyStatement(s, Head(stmts)), Tail(stmts))

\* The way out of the `with` statement, x being the outcome of __exit__ and
\* exc the body's exception: an exception of __exit__ replaces the body's,
\* and the body's is re-raised unless __exit__ returned a true value.
Reraise(x, exc) ==
    IF x.s.exc # "ok" \/ x.suppress THEN x.s ELSE [x.s EXCEPT !.exc = exc]

\* __exit__ is called on every way out of the body b.
Leave(b) == Reraise(exit([b EXCEPT !.exc = "ok"]), b.exc)

\* The `with` statement: __enter__, the body, __exit__.
WithStatement(s, stmts) == Leave(Body(enter(s), stmts))

RECURSIVE Concat(_)
Concat(seqs) == IF seqs = <<>> THEN <<>> ELSE Head(seqs) \o Concat(Tail(seqs))

\* The session after a `with` statement with outcome r.
WithDone(r, op) ==
    /\ declObjs' = r.objs
    /\ modDecl' = r.mod
    /\ declStack' = r.stack
    /\ declsAttr' = r.attr
    /\ egraph' = r.eg
    /\ snaps' = r.snaps
    /\ batches' = r.calls
    /\ sent' = Concat(r.calls)
    /\ returned' = None
    /\ err' = r.exc
    /\ lastOp' = op
    /\ UNCHANGED reports

\* `with egraph: <stmts>` as one step of the session.
with_(stmts) ==
    /\ WithDone(WithStatement(Session, stmts), Op("with", "", stmts))
    /\ UNCHANGED moduleVars

----------------------------------------------------------------------------
(* Module composition: _BaseModule.__post_init__, Module and               *)
(* EGraph.__post_init__.  A Module is the heap entry                       *)
(* [flat, included, cmds, deps, hist]: _flatted_deps (addresses), the       *)
(* included Declarations (by owning module; 0 is the builtins), _cmds,     *)
(* and, as history, the deps list it was constructed with and the ruleset  *)
(* names registered on it, in the order of the calls.                      *)

BuiltinDecls == 0

\* Equality of the _mod_decls of two modules: every module owns the
\* ModuleDeclarations built for it in __post_init__.
ModDeclsEq(a, b) == a = b

\* Module.__eq__ as @dataclass generates it: the fields _flatted_deps,
\* _mod_decls and _cmds are all compared (lists element by element).
RECURSIVE ModuleEq(_, _)
ModuleEq(a, b) ==
    \/ a = b
    \/ /\ ModDeclsEq(a, b)
       /\ Len(mods[a].flat) = Len(mods[b].flat)
       /\ \A i \in 1..Len(mods[a].flat) : ModuleEq(mods[a].flat[i], mods[b].flat[i])
       /\ mods[a].cmds = mods[b].cmds

\* child_mod in self._flatted_deps
InFlat(child_mod, flat) == \E i \in 1..Len(flat) : ModuleEq(child_mod, flat[i])

\* A loop that appends every child, seen before or not.
AddChildrenAll(acc, children, i) ==
    [flat |-> acc.flat \o SubSeq(children, i, Len(children)),
     included |-> acc.included \o SubSeq(children, i, Len(children))]

\* Lines 111-114: the children [*mod._flatted_deps, mod] from position i on.
RECURSIVE AddChildren(_, _, _)
AddChildren(acc, children, i) ==
    IF i > Len(children) THEN acc
    ELSE LET child_mod == children[i]
         IN  IF ~InFlat(child_mod, acc.flat)
             THEN AddChildren([flat |-> Append(acc.flat, child_mod),
                               included |-> Append(acc.included, child_mod)],
                              children, i + 1)
             ELSE AddChildren(acc, children, i + 1)

\* A traversal that takes the module before its dependencies.
ChildrenModFirst(mod) == <<mod>> \o mods[mod].flat

\* [*mod._flatted_deps, mod]
ChildrenOf(mod) == mods[mod].flat \o <<mod>>

\* Lines 108-115: the loop over the modules from position i on.
RECURSIVE FlattenFrom(_, _, _)
FlattenFrom(acc, modules, i) ==
    IF i > Len(modules) THEN acc
    ELSE FlattenFrom(AddChildren(acc, ChildrenOf(modules[i]), 1), modules, i + 1)

PostInit(modules) ==
    FlattenFrom([flat |-> <<>>, included |-> <<BuiltinDecls>>], modules, 1)

\* Number of commands registered on all modules so far.
RECURSIVE TotalCmds(_)
TotalCmds(i) == IF i = 0 THEN 0 ELSE Len(mods[i].cmds) + TotalCmds(i - 1)

\* Module(deps): a new module with no commands.
NewModule(deps) ==
    /\ ~gBuilt
    /\ Len(mods) < MaxMods
    /\ Len(mods) + TotalCmds(Len(mods)) < MaxOps
    /\ LET p == PostInit(deps)
       IN  mods' = Append(mods, [flat |-> p.flat, included |-> p.included,
                                 cmds |-> <<>>, deps |-> deps, hist |-> <<>>])
    /\ UNCHANGED <<gBuilt, gFlat, gRuns>>
    /\ UNCHANGED sessionVars

\* (a _process_commands that keeps only the latest commands)
ModuleProcessCommandsReplace(cmds_, cmds) == cmds

\* Module._process_commands: self._cmds.extend(cmds).
ModuleProcessCommands(cmds_, cmds) == cmds_ \o cmds

\* Module.ruleset(name) (lines 468-470 with Module._process_commands):
\* the command is appended to the module's _cmds.
ModuleRuleset(m, name) ==
    /\ ~gBuilt
    /\ Len(mods) + TotalCmds(Len(mods)) < MaxOps
    /\ mods' = [mods EXCEPT ![m].cmds = ModuleProcessCommands(@, <<AddRuleset(name)>>),
                             ![m].hist = Append(@, name)]
    /\ UNCHANGED <<gBuilt, gFlat, gRuns>>
    /\ UNCHANGED sessionVars

\* EGraph.__post_init__ (lines 587-593): one run_program call per flattened
\* dependency, in order, on that module's _cmds.
Replay(flat) == [i \in 1..Len(flat) |-> [mod |-> flat[i], cmds |-> mods[flat[i]].cmds]]

NewEGraph(deps) ==
    /\ ~gBuilt
    /\ LET p == PostInit(deps)
       IN  /\ gFlat' = p.flat
           /\ gRuns' = Replay(p.flat)
    /\ gBuilt' = TRUE
    /\ lastOp' = Op("EGraph", "", deps)
    /\ UNCHANGED mods
    /\ UNCHANGED <<declObjs, modDecl, declStack, declsAttr, egraph, reports, sent,
                    batches, returned, err, snaps>>

----------------------------------------------------------------------------
(* The rule DSL: expressions, and the builders of actions, facts and       *)
(* rules.  The dataclasses the builders construct (declarations.py) are    *)
(* records tagged with the class name.                                     *)

\* ExprDecl: a variable, a literal, or a call of a registered callable.
VarDecl(name) == Obj("VarDecl", name, <<>>)
LitDecl(value) == Obj("LitDecl", value, <<>>)
CallDecl(callable, args) == Obj("CallDecl", callable, args)

\* runtime.RuntimeExpr: an expression object of sort tp wrapping the
\* TypedExprDecl(tp, expr) it stands for.
TypedExprDecl(tp, expr) == Obj("TypedExprDecl", tp, <<expr>>)
RuntimeExpr(tp, expr) == Obj("RuntimeExpr", tp, <<expr>>)
IsBaseExpr(x) == x.k = "RuntimeExpr"

\* expr_parts(expr) (lines 975-980) and the field .expr of its result.
expr_parts(expr) == TypedExprDecl(expr.name, expr.args[1])
ExprField(typed) == typed.args[1]

\* Actions and facts (declarations.py).
Let(name, expr) == Obj("Let", name, <<expr>>)
ExprAction(expr) == Obj("ExprAction", "", <<expr>>)
Delete(call) == Obj("Delete", "", <<call>>)
Set(lhs, rhs) == Obj("Set", "", <<lhs, rhs>>)
Union_(lhs, rhs) == Obj("Union_", "", <<lhs, rhs>>)
Panic(message) == Obj("Panic", message, <<>>)
Eq(exprs) == Obj("Eq", "", exprs)
ExprFact(expr) == Obj("ExprFact", "", <<expr>>)

\* Rule(head, body, name, ruleset) (declarations.py).
Rule(head, body, name, ruleset) ==
    [k |-> "Rule", head |-> head, body |-> body, name |-> name, ruleset |-> ruleset]

\* A Python str object, where the code accepts None in its place.
Str(s) == Obj("str", s, <<>>)

\* x or "" for an Optional[str]: None and the empty string are both falsy.
StrOrEmpty(x) == IF x = None THEN "" ELSE x.name

\* Ruleset(name) and _ruleset_name (lines 807-813); no ruleset is None.
Ruleset(name) == Obj("Ruleset", name, <<>>)
ruleset_name(ruleset) == IF ruleset = None THEN "" ELSE ruleset.name

\* panic, let, expr_action, expr_fact (lines 835-847, 858-859).
panic(message) == Panic(message)
let(name, expr) == Let(name, ExprField(expr_parts(expr)))
expr_action(expr) == ExprAction(ExprField(expr_parts(expr)))
expr_fact(expr) == ExprFact(ExprField(expr_parts(expr)))

\* A delete() that wraps whatever expression it is given.
delete_any(expr) == Ok(Delete(ExprField(expr_parts(expr))))

\* delete(expr) (lines 850-855).
delete(expr) ==
    LET decl == ExprField(expr_parts(expr))
    IN  IF decl.k # "CallDecl" THEN Raise("ValueError") ELSE Ok(Delete(decl))

\* _SetBuilder.to (lines 944-948).
SetBuilderTo(lhs_, rhs) ==
    LET lhs == ExprField(expr_parts(lhs_))
    IN  IF lhs.k # "CallDecl" THEN Raise("ValueError")
        ELSE Ok(Set(lhs, ExprField(expr_parts(rhs))))

\* _UnionBuilder.with_ (lines 958-959).
UnionBuilderWith(lhs, rhs) ==
    Union_(ExprField(expr_parts(lhs)), ExprField(expr_parts(rhs)))

\* _EqBuilder.to (lines 933-934): expr_parts(e).expr for e in (self.expr, *exprs).
EqBuilderTo(expr, exprs) ==
    LET all == <<expr>> \o exprs
    IN  Eq([i \in 1..Len(all) |-> ExprField(expr_parts(all[i]))])

\* _action_like, _action_likes, _fact_like, _fact_likes (lines 1021-1041).
action_like(a) == IF IsBaseExpr(a) THEN expr_action(a) ELSE a
\* (a conversion that takes the actions last to first)
action_likes_reversed(as) == [i \in 1..Len(as) |-> action_like(as[Len(as) + 1 - i])]
action_likes(as) == [i \in 1..Len(as) |-> action_like(as[i])]
fact_like(f) == IF IsBaseExpr(f) THEN expr_fact(f) ELSE f
fact_likes(fs) == [i \in 1..Len(fs) |-> fact_like(fs[i])]

\* rule(*facts, ruleset, name) (lines 872-874): the _RuleBuilder.
RuleBuilder(facts, name, ruleset) == [facts |-> facts, name |-> name, ruleset |-> ruleset]
rule(facts, ruleset, name) == RuleBuilder(fact_likes(facts), name, ruleset)

\* _RuleBuilder.then (lines 971-972); self.name or "".
RuleBuilderThen(self, actions) ==
    Rule(action_likes(actions), self.facts,
         StrOrEmpty(self.name), ruleset_name(self.ruleset))
----------------------------------------------------------------------------
(* The same builders in python/egg_smol/registry.py.  There a builder      *)
(* stores the expression objects it is given, and the declaration is made  *)
(* by the object's _to_decl / to_decl method.                              *)

\* The declarations the conversions produce (egg_smol/declarations.py).
DeleteDecl(call) == Obj("DeleteDecl", "", <<call>>)
SetDecl(lhs, rhs) == Obj("SetDecl", "", <<lhs, rhs>>)
EqDecl(exprs) == Obj("EqDecl", "", exprs)
RuleDecl(header, body) == [k |-> "RuleDecl", header |-> header, body |-> body]

\* expr_to_decl (registry.py lines 250-252).
expr_to_decl(expr) == expr.args[1]

\* delete (lines 174-175) and Delete._to_decl (lines 310-314).
RegistryDelete(expr) == Delete(expr)
DeleteToDecl(self) ==
    LET decl == expr_to_decl(self.args[1])
    IN  IF decl.k # "CallDecl" THEN Raise("ValueError") ELSE Ok(DeleteDecl(decl))

\* _SetBuilder.to (lines 224-225) and Set._to_decl (lines 348-354).
RegistrySetBuilderTo(lhs, rhs) == Set(lhs, rhs)
SetToDecl(self) ==
    LET lhs == expr_to_decl(self.args[1])
    IN  IF lhs.k # "CallDecl" THEN Raise("ValueError")
        ELSE Ok(SetDecl(lhs, expr_to_decl(self.args[2])))

\* _EqBuilder.to (lines 213-214) and Eq.to_decl (lines 290-291).
RegistryEqBuilderTo(expr, exprs) == Eq(<<expr>> \o exprs)
EqToDecl(self) == EqDecl([i \in 1..Len(self.args) |-> expr_to_decl(self.args[i])])

\* fact_to_decl (lines 297-300).
fact_to_decl(fact) == IF fact.k = "Eq" THEN EqToDecl(fact) ELSE expr_to_decl(fact)

\* action_to_decl (lines 373-376), for the actions modelled here.
action_to_decl(action) ==
    IF IsBaseExpr(action) THEN Ok(expr_to_decl(action))
    ELSE IF action.k = "Delete" THEN DeleteToDecl(action)
    ELSE SetToDecl(action)

\* if_ (lines 186-187), _RuleBuilder.then (lines 246-247), Rule._to_decl
\* (lines 384-388); the first action whose conversion raises ends the call.
RegistryRule(header, body) == [k |-> "Rule", header |-> header, body |-> body]
if_(facts) == [facts |-> facts]
RegistryRuleBuilderThen(self, actions) == RegistryRule(actions, self.facts)
RuleToDecl(self) ==
    LET hs == [i \in 1..Len(self.header) |-> action_to_decl(self.header[i])]
    IN  IF \E i \in 1..Len(hs) : ~hs[i].ok
        THEN Raise("ValueError")
        ELSE Ok(RuleDecl([i \in 1..Len(hs) |-> hs[i].val],
                         [i \in 1..Len(self.body) |-> fact_to_decl(self.body[i])]))
----------------------------------------------------------------------------
(* Registering rules and running the engine: register, ruleset, define,    *)
(* run, check, extract, extract_multiple, simplify.                        *)

\* What the conversions of declarations.py hand to the engine: the command
\* kind and the declaration it was made from.
EggCmd(cmd, payload) == Command(cmd, NoName, payload)

\* Command._to_egg_command(mod_decls), for a rule or an action.
ToEggCommand(command) ==
    EggCmd(IF command.k = "Rule" THEN "Rule" ELSE "ActionCommand", command)

\* _command_like (lines 1000-1003).
command_like(c) == IF IsBaseExpr(c) THEN expr_action(c) ELSE c

\* _var(name, bound) (lines 882-886).
var_(name, bound) ==
    IF bound.k # "RuntimeClass" THEN Raise("TypeError")
    ELSE Ok(RuntimeExpr(bound.name, VarDecl(name)))

\* A generator function given to register(): its parameters, in order, with
\* or without an annotation.  It yields one rule: the first variable is
\* bound by the fact r(v1), and every variable is used by an action f(vi).
ParamName(i) == "v" \o ToString(i)
Generator(params) == [k |-> "function", params |-> params]
IsFunctionType(x) == x.k = "function"
GenBody(args) ==
    <<RuleBuilderThen(
          rule(IF args = <<>> THEN <<>>
               ELSE <<RuntimeExpr("Unit", CallDecl("r", <<args[1].args[1]>>))>>,
               None, None),
          [i \in 1..Len(args) |-> RuntimeExpr("A", CallDecl("f", <<args[i].args[1]>>))])>>

\* The first element of a sequence of outcomes that raised, if any.
FirstRaise(rs) ==
    IF \E i \in 1..Len(rs) : ~rs[i].ok
    THEN rs[CHOOSE i \in 1..Len(rs) : ~rs[i].ok /\ \A j \in 1..(i - 1) : rs[j].ok]
    ELSE Ok(None)

\* A _command_generator that makes an untyped variable of a parameter
\* without annotation.
CommandGeneratorLenient(gen) ==
    LET args == [i \in 1..Len(gen.params) |->
                    IF gen.params[i].ann = Empty
                    THEN Ok(RuntimeExpr("", VarDecl(ParamName(i))))
                    ELSE var_(ParamName(i), gen.params[i].ann)]
    IN  IF ~FirstRaise(args).ok THEN FirstRaise(args)
        ELSE Ok(GenBody([i \in 1..Len(args) |-> args[i].val]))

\* _command_generator (lines 1009-1015): hints[p.name] raises KeyError for a
\* parameter without annotation; the arguments are made in order.
CommandGenerator(gen) ==
    LET args == [i \in 1..Len(gen.params) |->
                    IF gen.params[i].ann = Empty THEN Raise("KeyError")
                    ELSE var_(ParamName(i), gen.params[i].ann)]
    IN  IF ~FirstRaise(args).ok THEN FirstRaise(args)
        ELSE Ok(GenBody([i \in 1..Len(args) |-> args[i].val]))

\* register (lines 457-466) up to the call of _process_commands: the engine
\* commands of the generator's, or of the given, commands.
RegisterCommands(x) ==
    LET commands == IF IsFunctionType(x) THEN CommandGenerator(x) ELSE Ok(x.commands)
    IN  IF ~commands.ok THEN commands
        ELSE Ok([i \in 1..Len(commands.val) |->
                    ToEggCommand(command_like(commands.val[i]))])

\* Commands given to register() directly.
Commands(cs) == [k |-> "commands", commands |-> cs]

\* Room for one more module, or one more command on the engine or on a
\* module.
MaxCalls == 3     \* modules created plus commands in effect or collected
Room == Len(mods) + TotalCmds(Len(mods)) + Cardinality(egraph.cur) < MaxCalls

\* EGraph.register.
register(x) ==
    /\ Room
    /\ IsFunctionType(x) => \A i \in 1..Len(x.params) : Exists(x.params[i].ann)
    /\ LET cs == RegisterCommands(x)
       IN  Registered(IF cs.ok THEN Done(Decl, cs.val) ELSE Fail(Decl, <<>>, cs.exc),
                      Op("register", "", x))
    /\ UNCHANGED moduleVars

\* Module.register: _process_commands extends the module's _cmds.
ModuleRegister(m, x) ==
    /\ Room
    /\ ~gBuilt
    /\ IsFunctionType(x) => \A i \in 1..Len(x.params) : Exists(x.params[i].ann)
    /\ LET cs == RegisterCommands(x)
       IN  /\ mods' = [mods EXCEPT ![m].cmds =
                          IF cs.ok THEN ModuleProcessCommands(@, cs.val) ELSE @]
           /\ err' = cs.exc
    /\ lastOp' = Op("Module.register", m, x)
    /\ returned' = None
    /\ sent' = <<>>
    /\ batches' = <<>>
    /\ UNCHANGED <<declObjs, modDecl, declStack, declsAttr, egraph, reports, snaps>>
    /\ UNCHANGED <<gBuilt, gFlat, gRuns>>

\* A call that sends one command to the engine and then reads a report.
\* The engine (bindings.EGraph) either rejects the command (run_program
\* raises) or runs it and afterwards holds the reports rep.
Sends(cmd, rep, engine_ok, ret, exc, op) ==
    /\ Room
    /\ egraph' = IF engine_ok THEN RunProgram(egraph, <<cmd>>, FALSE).eg ELSE egraph
    /\ reports' = IF engine_ok THEN rep ELSE reports
    /\ sent' = <<cmd>>
    /\ batches' = <<(<<cmd>>)>>
    /\ err' = IF engine_ok THEN exc ELSE "EggSmolError"
    /\ returned' = IF engine_ok /\ exc = "ok" THEN ret ELSE None
    /\ lastOp' = op
    /\ UNCHANGED <<declObjs, modDecl, declStack, declsAttr, snaps>>
    /\ UNCHANGED moduleVars

\* ruleset(name) (lines 468-470).
EGraphRuleset(name) ==
    \E engine_ok \in BOOLEAN :
        Sends(AddRuleset(name), reports, engine_ok, Ruleset(name), "ok",
              Op("ruleset", name, <<>>))

\* TypedExprDecl.to_egg(mod_decls): the engine's term for the expression.
ToEgg(typed) == Obj("egg", "", <<ExprField(typed)>>)
\* TypedExprDecl.from_egg(mod_decls, expr): the typed expression of a term of
\* sort tp the engine returned.
FromEgg(tp, term) == TypedExprDecl(tp, term.args[1])

\* define(name, expr) (lines 536-544).
define(name, expr) ==
    \E engine_ok \in BOOLEAN :
        LET typed_expr == expr_parts(expr)
        IN  Sends(EggCmd("Define", Let(name, ToEgg(typed_expr))), reports, engine_ok,
                  RuntimeExpr(typed_expr.name, VarDecl(name)), "ok",
                  Op("define", name, expr))

\* The reports the engine may hold after a command: none, or one.
RunReport == Obj("RunReport", "", <<>>)
ExtractReport(tp, expr, variants) ==
    [k |-> "ExtractReport", tp |-> tp, expr |-> expr, variants |-> variants]

\* The extract reports the engine may hold after a command on the sort-A
\* expression f(x): none, or a term of sort A or of another sort.
ExtractReports ==
    {None,
     ExtractReport("A", ToEgg(TypedExprDecl("A", VarDecl("x"))),
                   <<ToEgg(TypedExprDecl("A", VarDecl("x")))>>),
     ExtractReport("i64", ToEgg(TypedExprDecl("i64", LitDecl("1"))), <<>>)}

\* run (lines 654-672): run(ruleset, limit, *until) makes the schedule, and
\* _run_schedule sends it and returns the run report, or raises without one.
Run(limit, ruleset, until) ==
    [k |-> "Run", limit |-> limit, ruleset |-> ruleset, until |-> until]
\* (a _run_schedule that returns whatever run_report() gave)
RunScheduleUnchecked(schedule, run_report, engine_ok) ==
    Sends(EggCmd("RunSchedule", schedule), [reports EXCEPT !.run = run_report],
          engine_ok, IF run_report = None THEN RunReport ELSE run_report, "ok",
          Op("run", "", schedule))
RunSchedule(schedule, run_report, engine_ok) ==
    Sends(EggCmd("RunSchedule", schedule), [reports EXCEPT !.run = run_report],
          engine_ok, run_report,
          IF run_report = None THEN "ValueError" ELSE "ok",
          Op("run", "", schedule))
run(limit_or_schedule, ruleset_, until) ==
    \E engine_ok \in BOOLEAN, run_report \in {None, RunReport} :
        RunSchedule(IF limit_or_schedule.k = "int"
                    THEN Run(limit_or_schedule.name, ruleset_name(ruleset_), fact_likes(until))
                    ELSE limit_or_schedule,
                    run_report, engine_ok)

\* check(*facts) (lines 674-688): one Check command of the facts.
check(facts) ==
    \E engine_ok \in BOOLEAN :
        Sends(EggCmd("Check", Eq(fact_likes(facts))), reports, engine_ok, None, "ok",
              Op("check", "", facts))

\* _run_extract (lines 712-717): the Extract command, then the extract
\* report or ValueError.
RunExtract(expr, n, extract_report) ==
    [cmd |-> EggCmd("Extract", Let(ToString(n), expr)),
     res |-> IF extract_report = None THEN Raise("ValueError") ELSE Ok(extract_report)]

\* extract(expr) (lines 690-700): the extracted term must have the type of
\* the expression.
extract(expr) ==
    \E engine_ok \in BOOLEAN, extract_report \in ExtractReports :
        LET typed_expr == expr_parts(expr)
            r == RunExtract(ToEgg(typed_expr), 0, extract_report)
            new_typed_expr == FromEgg(r.res.val.tp, r.res.val.expr)
        IN  Sends(r.cmd, [reports EXCEPT !.extract = extract_report], engine_ok,
                  IF r.res.ok THEN RuntimeExpr(new_typed_expr.name, ExprField(new_typed_expr))
                  ELSE None,
                  IF ~r.res.ok THEN r.res.exc
                  ELSE IF new_typed_expr.name # typed_expr.name THEN "RuntimeError"
                  ELSE "ok",
                  Op("extract", "", expr))

\* extract_multiple(expr, n) (lines 702-710): the variants of the report.
extract_multiple(expr, n) ==
    \E engine_ok \in BOOLEAN, extract_report \in ExtractReports :
        LET typed_expr == expr_parts(expr)
            r == RunExtract(ToEgg(typed_expr), n, extract_report)
        IN  Sends(r.cmd, [reports EXCEPT !.extract = extract_report], engine_ok,
                  IF r.res.ok
                  THEN [k |-> "list",
                        items |-> [i \in 1..Len(r.res.val.variants) |->
                                      LET t == FromEgg(r.res.val.tp, r.res.val.variants[i])
                                      IN  RuntimeExpr(t.name, ExprField(t))]]
                  ELSE None,
                  r.res.exc,
                  Op("extract_multiple", ToString(n), expr))

\* simplify (lines 623-636) after the command: the extract report's
\* expression, or ValueError without a report.
SimplifyResult(expr, extract_report) ==
    IF extract_report = None THEN Raise("ValueError")
    ELSE LET new_typed_expr == FromEgg(extract_report.tp, extract_report.expr)
         IN  Ok(RuntimeExpr(new_typed_expr.name, ExprField(new_typed_expr)))

simplify(expr, limit, until, ruleset_) ==
    \E engine_ok \in BOOLEAN, extract_report \in ExtractReports :
        LET typed_expr == expr_parts(expr)
            egg_expr == ToEgg(typed_expr)
            r == SimplifyResult(expr, extract_report)
        IN  Sends(EggCmd("Simplify", [k |-> "Simplify", expr |-> egg_expr,
                                      config |-> Run(limit, ruleset_name(ruleset_),
                                                     fact_likes(until))]),
                  [reports EXCEPT !.extract = extract_report], engine_ok,
                  r.val, r.exc, Op("simplify", "", expr))
----------------------------------------------------------------------------
(* Inputs.                                                                 *)

SeqsUpTo(S, n) == UNION {[1..k -> S] : k \in 0..n}

ClassNames == {"A", "B"}
PlainClass(n) == Class(n, <<>>, <<>>, <<>>)
SortAnns == {RuntimeClass(n) : n \in ClassNames}

\* Parameter lists Python accepts: positional-or-keyword parameters, then at
\* most one *args, then keyword-only parameters.
KindRank(kind) == CASE kind = "POSITIONAL_OR_KEYWORD" -> 1
                    [] kind = "VAR_POSITIONAL" -> 2
                    [] kind = "KEYWORD_ONLY" -> 3
Kinds == {"POSITIONAL_OR_KEYWORD", "VAR_POSITIONAL", "KEYWORD_ONLY"}
ValidParams(ps) ==
    /\ \A i, j \in 1..Len(ps) : i < j => KindRank(ps[i].kind) <= KindRank(ps[j].kind)
    /\ \A i, j \in 1..Len(ps) :
           ps[i].kind = "VAR_POSITIONAL" /\ ps[j].kind = "VAR_POSITIONAL" => i = j
ParamLists(anns) ==
    {ps \in SeqsUpTo({Param(k, a) : k \in Kinds, a \in anns}, MaxParams) : ValidParams(ps)}

\* Annotation objects: the sorts, the literal types, a TypeVar, a class that
\* is no sort, and the unions of two or three of them.
Atoms == SortAnns \cup LiteralTypes \cup {TypeVarObj("T"), PyType("bool")}
Unions2 == {UnionObj(<<a, b>>) : a, b \in Atoms} \ {UnionObj(<<a, a>>) : a \in Atoms}
Unions3 == {UnionObj(<<PyType("int"), RuntimeClass("A"), RuntimeClass("B")>>),
            UnionObj(<<RuntimeClass("A"), PyType("int"), PyType("str")>>)}
Annotations == Atoms \cup Unions2 \cup Unions3


----------------------------------------------------------------------------
(* Specifications.                                                         *)

Init ==
    /\ declObjs = (1 :> EmptyDeclarations)
    /\ modDecl = 1
    /\ declStack = <<>>
    /\ declsAttr = None
    /\ egraph = EmptyEGraph
    /\ reports = NoReports
    /\ sent = <<>>
    /\ batches = <<>>
    /\ returned = None
    /\ err = "ok"
    /\ lastOp = Op("EGraph", "", <<>>)
    /\ snaps = <<>>
    /\ mods = <<>>
    /\ gBuilt = FALSE
    /\ gFlat = <<>>
    /\ gRuns = <<>>

\* The session: registrations of every kind between pushes and pops.  The
\* constant may ask for the engine name the relation gets by default.
SessionTps == {<<>>, <<RuntimeClass("A")>>}

Next ==
    \/ \E n \in ClassNames : class_(PlainClass(n), NoName)
    \/ \E tps \in SessionTps : relation("f", tps, NoName)
    \/ \E egg_name \in {NoName, EggName("", "f")} :
           constant("c", RuntimeClass("B"), egg_name)
    \/ push
    \/ pop

Spec == Init /\ [][Next]_vars

\* Function registration over the parameter lists of sort-annotated
\* parameters.
NextFunction ==
    \/ \E n \in ClassNames : class_(PlainClass(n), NoName)
    \/ \E ret \in SortAnns, ps \in ParamLists(SortAnns) : function("f", Fn(ret, ps), NoName)

SpecFunction == Init /\ [][NextFunction]_vars

\* Classes with members.  A class has the type parameters <<>> or <<T>>, at
\* most one class variable, and at most one method of its own choice
\* (__init__, the instance method m or the classmethod c), after the fixed
\* instance method k or alone, with a merge function or without.  A
\* member's first parameter has no
\* annotation, or (wrongly) one; the others are annotated with the class
\* itself, the sort B, the type variable T or the class applied to T.
MemberAnns ==
    {PyType("A"), RuntimeClass("B"), TypeVarObj("T"),
     GenericAlias("A", <<TypeVarObj("T")>>)}
FirstParams == {Param("POSITIONAL_OR_KEYWORD", Empty),
                Param("POSITIONAL_OR_KEYWORD", RuntimeClass("B"))}
MemberFns ==
    {IF merge THEN WithMerge(Fn(ret, <<first>> \o ps)) ELSE Fn(ret, <<first>> \o ps) :
         merge \in BOOLEAN, ret \in MemberAnns, first \in FirstParams,
         ps \in {q \in ParamLists(MemberAnns) :
                    /\ Len(q) < MaxParams
                    /\ \A i \in 1..Len(q) : q[i].kind # "KEYWORD_ONLY"}}
MemberMethods ==
    {Method(n, fn, n = "c", NoName) : n \in {"__init__", "m", "c"}, fn \in MemberFns}
MethodK ==
    Method("k", Fn(RuntimeClass("B"), <<Param("POSITIONAL_OR_KEYWORD", Empty)>>),
           FALSE, NoName)
MemberClasses ==
    {Class("A", parameters, classvars, methods) :
         parameters \in {<<>>, <<TypeVarObj("T")>>},
         classvars \in {<<>>} \cup {<<(<<"v", a>>)>> : a \in MemberAnns},
         methods \in {<<>>, <<MethodK>>} \cup
                     {<<m>> : m \in MemberMethods} \cup
                     {<<MethodK, m>> : m \in MemberMethods}}

\* The RuntimeClass objects the class's annotations use exist.
ClassExists(cls) ==
    /\ \A i \in 1..Len(cls.classvars) : Exists(cls.classvars[i][2])
    /\ \A i \in 1..Len(cls.methods) : FnExists(cls.methods[i].fn)

\* A class statement is run once: the class is not registered yet.
NextClass ==
    \/ class_(PlainClass("B"), NoName)
    \/ /\ \A srt \in Decl.sorts : srt.name # "A"
       /\ \E cls \in MemberClasses : ClassExists(cls) /\ class_(cls, NoName)
    \/ \E tp \in MemberAnns : constant("c", tp, NoName)

SpecClass == Init /\ [][NextClass]_vars

\* Annotation resolution over the annotation objects: the one argument of a
\* relation, or the one parameter of a function.
NextResolve ==
    \/ \E n \in ClassNames : class_(PlainClass(n), NoName)
    \/ \E tp \in Annotations : relation("f", <<tp>>, NoName)
    \/ \E tp \in Annotations :
           function("g", Fn(RuntimeClass("A"), <<Param("POSITIONAL_OR_KEYWORD", tp)>>),
                    NoName)

SpecResolve == Init /\ [][NextResolve]_vars

\* Module composition.
MaxDeps == 2      \* length of a deps list
\* Every ruleset gets a name of its own: the k-th one registered is "r<k>".
RulesetName(k) == "r" \o ToString(k)
\* Deps lists name each module at most once.
DepLists ==
    {deps \in SeqsUpTo(1..Len(mods), MaxDeps) :
         \A i, j \in 1..Len(deps) : deps[i] = deps[j] => i = j}

NextModules ==
    \/ \E deps \in DepLists : NewModule(deps)
    \/ \E m \in 1..Len(mods) : ModuleRuleset(m, RulesetName(TotalCmds(Len(mods)) + 1))
    \/ \E deps \in DepLists : NewEGraph(deps)

SpecModules == Init /\ [][NextModules]_vars

----------------------------------------------------------------------------
(* Calls of the rule DSL.  A builder call touches neither the registry nor *)
(* the engine: it returns an object or raises.                             *)

MaxArgs == 2      \* expressions, facts or actions given to one builder call

\* The outcome r of a builder call op.
Built(r, op) ==
    /\ returned' = r.val
    /\ err' = r.exc
    /\ lastOp' = op
    /\ sent' = <<>>
    /\ batches' = <<>>
    /\ UNCHANGED <<declObjs, modDecl, declStack, declsAttr, egraph, reports, snaps>>
    /\ UNCHANGED moduleVars

\* Expressions of a session with a sort A, f : A -> A and a relation r on A:
\* a variable, a literal, a call, and a call of the relation.
Exprs ==
    {RuntimeExpr("A", VarDecl("x")),
     RuntimeExpr("i64", LitDecl("1")),
     RuntimeExpr("A", CallDecl("f", <<VarDecl("x")>>)),
     RuntimeExpr("Unit", CallDecl("r", <<VarDecl("x")>>))}

\* What rule() accepts as a fact and then() as an action: an object made by
\* a builder, or a bare expression.
X == RuntimeExpr("A", VarDecl("x"))
FX == RuntimeExpr("A", CallDecl("f", <<VarDecl("x")>>))
RX == RuntimeExpr("Unit", CallDecl("r", <<VarDecl("x")>>))
FactLikes == {RX, EqBuilderTo(X, <<FX>>), expr_fact(RX)}
ActionLikes == {FX, panic("m"), delete(FX).val, let("y", FX)}
Rulesets == {None, Ruleset("rs")}
RuleNames == {None, Str(""), Str("n")}

\* The same for egg_smol/registry.py, whose objects hold expressions.
RegistryFactLikes == {RX, RegistryEqBuilderTo(X, <<FX>>)}
RegistryActionLikes ==
    {FX, RegistryDelete(X), RegistryDelete(FX), RegistrySetBuilderTo(X, FX),
     RegistrySetBuilderTo(FX, X)}

\* delete(expr)
delete_(expr) == Built(delete(expr), Op("delete", "", expr))

\* set_(lhs).to(rhs)
set_to(lhs, rhs) == Built(SetBuilderTo(lhs, rhs), Op("set_", "", <<lhs, rhs>>))

\* eq(expr).to(*exprs)
eq_to(expr, exprs) == Built(Ok(EqBuilderTo(expr, exprs)), Op("eq", "", <<expr>> \o exprs))

\* rule(*facts, ruleset=ruleset, name=name).then(*actions)
rule_then(facts, ruleset, name, actions) ==
    Built(Ok(RuleBuilderThen(rule(facts, ruleset, name), actions)),
          Op("rule", "", [facts |-> facts, ruleset |-> ruleset, name |-> name,
                          actions |-> actions]))

\* registry.py: delete(expr), set_(lhs).to(rhs), eq(expr).to(*exprs),
\* if_(*facts).then(*actions).
registry_delete(expr) == Built(Ok(RegistryDelete(expr)), Op("registry.delete", "", expr))
registry_set_to(lhs, rhs) ==
    Built(Ok(RegistrySetBuilderTo(lhs, rhs)), Op("registry.set_", "", <<lhs, rhs>>))
registry_eq_to(expr, exprs) ==
    Built(Ok(RegistryEqBuilderTo(expr, exprs)), Op("registry.eq", "", <<expr>> \o exprs))
registry_if_then(facts, actions) ==
    Built(Ok(RegistryRuleBuilderThen(if_(facts), actions)),
          Op("registry.if_", "", [facts |-> facts, actions |-> actions]))

\* registry.py: the object the last builder call returned is converted to
\* its declaration.
registry_to_decl ==
    /\ err = "ok"
    /\ \/ /\ lastOp.op \in {"registry.delete", "registry.set_"}
          /\ Built(action_to_decl(returned), Op("registry.action_to_decl", "", returned))
       \/ /\ lastOp.op = "registry.eq"
          /\ Built(Ok(fact_to_decl(returned)), Op("registry.fact_to_decl", "", returned))
       \/ /\ lastOp.op = "registry.if_"
          /\ Built(RuleToDecl(returned), Op("registry.Rule._to_decl", "", returned))

\* The outcome of a builder call depends on its arguments alone, so each call
\* is taken from the initial state, and a conversion from the state its
\* argument was built in.
NextBuild ==
    \/ /\ lastOp.op = "EGraph"
       /\ \/ \E e \in Exprs : delete_(e)
          \/ \E lhs, rhs \in Exprs : set_to(lhs, rhs)
          \/ \E e \in Exprs, es \in SeqsUpTo(Exprs, MaxArgs) : eq_to(e, es)
          \/ \E fs \in SeqsUpTo(FactLikes, MaxArgs), as \in SeqsUpTo(ActionLikes, MaxArgs),
                rs \in Rulesets, n \in RuleNames : rule_then(fs, rs, n, as)
          \/ \E e \in Exprs : registry_delete(e)
          \/ \E lhs, rhs \in Exprs : registry_set_to(lhs, rhs)
          \/ \E e \in Exprs, es \in SeqsUpTo(Exprs, MaxArgs) : registry_eq_to(e, es)
          \/ \E fs \in SeqsUpTo(RegistryFactLikes, MaxArgs),
                as \in SeqsUpTo(RegistryActionLikes, MaxArgs) : registry_if_then(fs, as)
    \/ registry_to_decl

SpecBuild == Init /\ [][NextBuild]_vars
----------------------------------------------------------------------------
(* A session that registers rules and runs the engine, next to modules     *)
(* that collect rules.                                                     *)

\* Generators whose parameters are annotated with the sort A or not at all,
\* and one annotated with a Python type; command lists of one bare
\* expression, or of a rule given one or more times.
GenAnns == {Empty, RuntimeClass("A")}
Generators ==
    {Generator(ps) :
        ps \in SeqsUpTo({Param("POSITIONAL_OR_KEYWORD", a) : a \in GenAnns}, MaxParams)}
    \cup {Generator(<<Param("POSITIONAL_OR_KEYWORD", PyType("int"))>>)}
PlainCommands ==
    {Commands(<<FX>>)}
    \cup {Commands([i \in 1..n |-> RuleBuilderThen(rule(<<RX>>, None, None), <<FX>>)]) :
             n \in 1..MaxArgs}
Registrable == Generators \cup PlainCommands
PyInt(n) == Obj("int", n, <<>>)
Schedules == {PyInt("1"), Run("2", "rs", <<>>)}

NextRules ==
    \/ class_(PlainClass("A"), NoName)
    \/ \E x \in Registrable : register(x)
    \/ NewModule(<<>>)
    \/ \E m \in 1..Len(mods), x \in Registrable : ModuleRegister(m, x)
    \/ EGraphRuleset("rs")
    \/ define("d", FX)
    \/ \E s \in Schedules : run(s, None, <<>>)
    \/ check(<<RX>>)
    \/ extract(FX)
    \/ extract_multiple(FX, 2)
    \/ simplify(FX, "1", <<>>, None)

SpecRules == Init /\ [][NextRules]_vars
----------------------------------------------------------------------------
(* A session that registers sorts, relations and constants between pushes  *)
(* and pops, next to modules that collect rulesets and rules.              *)

AppendRoom ==
    Len(mods) + TotalCmds(Len(mods)) + Cardinality(egraph.cur) + Len(declStack) < MaxOps

NextAppend ==
    \/ /\ AppendRoom
       /\ \/ class_(PlainClass("A"), NoName)
          \/ relation("r", <<RuntimeClass("A")>>, NoName)
          \/ constant("c", RuntimeClass("A"), NoName)
          \/ push
          \/ NewModule(<<>>)
          \/ \E m \in 1..Len(mods) : ModuleRuleset(m, RulesetName(Len(mods[m].hist) + 1))
          \/ \E m \in 1..Len(mods) : ModuleRegister(m, Commands(<<FX>>))
    \/ pop

SpecAppend == Init /\ [][NextAppend]_vars
----------------------------------------------------------------------------
(* The session with `with` blocks.                                         *)

MaxBody == 2

BodyStatements ==
    {Op("class_", "B", PlainClass("B")), Op("relation", "g", <<>>),
     Op("raise", "BodyError", <<>>)}

NextWith ==
    \/ class_(PlainClass("A"), NoName)
    \/ push
    \/ pop
    \/ /\ Len(declStack) < MaxDepth
       /\ \E stmts \in SeqsUpTo(BodyStatements, MaxBody) : with_(stmts)

SpecWith == Init /\ [][NextWith]_vars
----------------------------------------------------------------------------
(* The scope stack.                                                        *)

\* A step of the session that is a successful pop().
PopStep == lastOp'.op = "pop" /\ err' = "ok"

\* C1: after push(); <registrations>; pop() the session's declaration set
\* is the one of immediately before the push(): nothing registered inside
\* the scope remains.
C1_PopRestoresDeclarations ==
    [][PopStep => declObjs'[modDecl'] = snaps[Len(snaps)]]_vars

\* C2: pops are strictly LIFO: a pop() sends exactly one Pop to the engine
\* and restores the Declarations snapshot taken by the most recent push()
\* not yet popped, the same push() whose engine checkpoint is restored.
C2_PopIsLifo ==
    [][PopStep =>
         /\ sent' = <<PopCmd>>
         /\ Len(egraph.stack) = Len(declStack)
         /\ declStack' = SubSeq(declStack, 1, Len(declStack) - 1)
         /\ egraph'.stack = SubSeq(egraph.stack, 1, Len(egraph.stack) - 1)
         /\ egraph'.cur = egraph.stack[Len(egraph.stack)]
         /\ declObjs'[modDecl'] = snaps[Len(snaps)]]_vars

\* C3: pop() on an empty scope stack raises at the call and leaves the
\* session's declarations as they were.
C3_PopOnEmptyRaises ==
    [][(lastOp'.op = "pop" /\ declStack = <<>>) =>
         /\ err' \in {"EggSmolError", "IndexError"}
         /\ modDecl' = modDecl
         /\ declObjs' = declObjs
         /\ declStack' = <<>>]_vars

\* A pop() on the empty stack of a session that has declarations.
C3_Witness ==
    /\ lastOp.op = "pop"
    /\ err # "ok"
    /\ declStack = <<>>
    /\ Decl.sorts # {}
    /\ Decl.fns # {}

----------------------------------------------------------------------------
(* The registry.                                                           *)

\* C6: no two distinct callable refs of the scope have the same
\* engine-visible name, the inequality method of each class included.
C6_EggNamesUnique ==
    \A e1, e2 \in Decl.egg : e1.egg = e2.egg => e1.ref = e2.ref

\* The ref and the declaration a relation() or constant() call registers.
RefOfOp(op) ==
    IF op.op = "relation" THEN FunctionRef(op.name) ELSE ConstantRef(op.name)
DeclOfOp(op) ==
    IF op.op = "relation"
    THEN FunctionDecl(ResolveEach(op.arg, <<>>, <<>>).val,
                      TypeRefWithVars("Unit", <<>>), None)
    ELSE FunctionDecl(<<>>, ResolveTypeAnnotation(op.arg, <<>>, <<>>).val, None)

AtMostOneDecl(d) == \A f1, f2 \in d.fns : f1.ref = f2.ref => f1.decl = f2.decl

----------------------------------------------------------------------------
(* Module composition.                                                     *)

Range(f) == {f[i] : i \in DOMAIN f}
Count(f, x) == Cardinality({i \in DOMAIN f : f[i] = x})

\* The modules a deps list reaches, directly or through dependencies.
RECURSIVE Reach(_)
Reach(m) == {m} \cup UNION {Reach(dep) : dep \in Range(mods[m].deps)}
ReachAll(deps) == UNION {Reach(dep) : dep \in Range(deps)}

\* The deps list the EGraph was constructed with.
gDeps == lastOp.arg

\* C4: a module reachable from a deps list, through however many
\* dependents, is exactly once in the flattened list, and an EGraph
\* constructed from the list runs that module's commands exactly once.
C4_ModuleOnce ==
    /\ \A x \in 1..Len(mods) : \A m \in ReachAll(mods[x].deps) :
           Count(mods[x].flat, m) = 1
    /\ gBuilt => \A m \in ReachAll(gDeps) :
           /\ Count(gFlat, m) = 1
           /\ Cardinality({i \in 1..Len(gRuns) : gRuns[i].mod = m}) = 1

\* An EGraph over a diamond: two of its dependencies share a dependency
\* that has commands.
C4_Witness ==
    /\ gBuilt
    /\ \E a, b \in Range(gDeps) :
           /\ a # b
           /\ \E m \in Range(mods[a].deps) \cap Range(mods[b].deps) :
                  mods[m].cmds # <<>>

\* The left-to-right traversal of a deps list, each module after its own
\* dependencies, with repetitions; and its first occurrences.
RECURSIVE Traversal(_)
Traversal(deps) ==
    IF deps = <<>> THEN <<>>
    ELSE Traversal(mods[Head(deps)].deps) \o <<Head(deps)>> \o Traversal(Tail(deps))

RECURSIVE FirstOccurrences(_)
FirstOccurrences(f) ==
    IF f = <<>> THEN <<>>
    ELSE LET front == FirstOccurrences(SubSeq(f, 1, Len(f) - 1))
             x == f[Len(f)]
         IN  IF x \in Range(front) THEN front ELSE Append(front, x)

AfterItsDependencies(flat) ==
    \A i \in 1..Len(flat) : \A dep \in ReachAll(mods[flat[i]].deps) :
        \E j \in 1..(i - 1) : flat[j] = dep

\* C5: the flattened list holds the modules in the order of their first
\* encounter in the left-to-right traversal of the deps list, every module
\* after all of its own dependencies; an EGraph replays the modules'
\* commands in that order, each module's in the order they were registered.
C5_OrderPreserved ==
    /\ \A x \in 1..Len(mods) :
           /\ mods[x].flat = FirstOccurrences(Traversal(mods[x].deps))
           /\ AfterItsDependencies(mods[x].flat)
    /\ gBuilt =>
           /\ gFlat = FirstOccurrences(Traversal(gDeps))
           /\ AfterItsDependencies(gFlat)
           /\ Len(gRuns) = Len(gFlat)
           /\ \A i \in 1..Len(gFlat) :
                  /\ gRuns[i].mod = gFlat[i]
                  /\ gRuns[i].cmds =
                         [k \in 1..Len(mods[gFlat[i]].hist) |->
                              AddRuleset(mods[gFlat[i]].hist[k])]

\* An EGraph whose deps list names a later module before an earlier one,
\* over a module with two different commands.
C5_Witness ==
    /\ gBuilt
    /\ Len(gFlat) = 3
    /\ \E i, j \in 1..3 : i < j /\ gFlat[i] > gFlat[j]
    /\ \E i \in 1..3 : Len(gRuns[i].cmds) = 2 /\ gRuns[i].cmds[1] # gRuns[i].cmds[2]

----------------------------------------------------------------------------
(* Function signatures.                                                    *)

\* A signature of fixed parameters followed by one variadic parameter.
FixedThenVarArg(params) ==
    /\ params # <<>>
    /\ params[Len(params)].kind = "VAR_POSITIONAL"
    /\ \A i \in 1..(Len(params) - 1) : params[i].kind = "POSITIONAL_OR_KEYWORD"

\* The annotations of a list of parameters, each resolved on its own.
ResolvedAnns(params) ==
    [i \in 1..Len(params) |-> ResolveTypeAnnotation(params[i].ann, <<>>, <<>>).val]

\* C8: a function of fixed parameters p1..pn and one variadic parameter v
\* is declared with arg_types the resolved annotations of p1..pn in order
\* and var_arg_type the resolved annotation of v.
C8_VarArgDecl ==
    (/\ lastOp.op = "function"
     /\ err = "ok"
     /\ FixedThenVarArg(lastOp.arg.params))
    => LET params == lastOp.arg.params
           n == Len(params) - 1
       IN  \E f \in Decl.fns :
               /\ f.ref = FunctionRef(lastOp.name)
               /\ f.decl.arg_types = ResolvedAnns(SubSeq(params, 1, n))
               /\ f.decl.var_arg_type = ResolvedAnns(params)[n + 1]

----------------------------------------------------------------------------
(* Annotation resolution.                                                  *)

\* The annotation a relation() or function() call of the resolver runs has.
AnnOfOp(op) == IF op.op = "relation" THEN op.arg[1] ELSE op.arg.params[1].ann

\* The argument types of the declaration the call registers.
ArgTypesOf(op) ==
    LET ref == FunctionRef(op.name)
    IN  (CHOOSE f \in Decl.fns : f.ref = ref).decl.arg_types

\* A union of one literal type and one registered sort, in either order.
LiteralAndSort(tp) ==
    /\ tp.k = "Union"
    /\ Len(tp.args) = 2
    /\ \E i \in 1..2 : tp.args[i] \in LiteralTypes /\ tp.args[3 - i].k = "RuntimeClass"

SortOf(tp) == IF tp.args[1].k = "RuntimeClass" THEN tp.args[1] ELSE tp.args[2]

\* C9: a union of one literal type and one registered sort resolves to the
\* reference of the sort, in both member orders, as the sort alone does.
C9_UnionResolvesToSort ==
    /\ \A srt \in SortAnns, lit \in LiteralTypes :
           Exists(srt) =>
               LET alone == ResolveTypeAnnotation(srt, <<>>, <<>>)
               IN  /\ alone.ok
                   /\ alone.val.name = srt.name
                   /\ ResolveTypeAnnotation(UnionObj(<<lit, srt>>), <<>>, <<>>) = alone
                   /\ ResolveTypeAnnotation(UnionObj(<<srt, lit>>), <<>>, <<>>) = alone
    /\ (/\ lastOp.op \in {"relation", "function"}
        /\ LiteralAndSort(AnnOfOp(lastOp))
        /\ err = "ok")
       => ArgTypesOf(lastOp) =
              <<ResolveTypeAnnotation(SortOf(AnnOfOp(lastOp)), <<>>, <<>>).val>>

\* A relation declared through a union that names the sort first.
C9_Witness ==
    /\ lastOp.op = "relation"
    /\ lastOp.arg = <<UnionObj(<<RuntimeClass("B"), PyType("str")>>)>>
    /\ err = "ok"
    /\ sent # <<>>
    /\ ArgTypesOf(lastOp)[1].name = "B"

\* The annotations that do not resolve: a union not of two members, a union
\* of two with no literal member or with two, a type variable (the call has
\* no enclosing class), and an object that is no sort.
Unresolvable(tp) ==
    IF tp.k = "Union"
    THEN \/ Len(tp.args) # 2
         \/ \A i \in 1..Len(tp.args) : tp.args[i] \notin LiteralTypes
         \/ \A i \in 1..Len(tp.args) : tp.args[i] \in LiteralTypes
    ELSE tp.k # "RuntimeClass"

\* C10: a registration whose annotation does not resolve fails with an
\* annotation error; nothing is added to the declarations and nothing is
\* sent to the engine.
C10_UnresolvableIsRejected ==
    [][(/\ lastOp'.op \in {"relation", "function"}
        /\ Unresolvable(AnnOfOp(lastOp')))
       => /\ err' \in {"TypeError", "ValueError"}
          /\ declObjs' = declObjs
          /\ sent' = <<>>
          /\ egraph' = egraph]_vars

\* A function over a union of three members, refused when sorts and a
\* relation are already declared.
C10_Witness ==
    /\ lastOp.op = "function"
    /\ AnnOfOp(lastOp).k = "Union"
    /\ Len(AnnOfOp(lastOp).args) = 3
    /\ err = "TypeError"
    /\ sent = <<>>
    /\ \E f \in Decl.fns : f.ref = FunctionRef("f")
    /\ \A f \in Decl.fns : f.ref # FunctionRef("g")

----------------------------------------------------------------------------
(* Class members.                                                          *)

\* The member's parameters after the first, all fixed or not.
RestOf(m) == Tail(m.fn.params)
AllFixed(params) == \A i \in 1..Len(params) : params[i].kind = "POSITIONAL_OR_KEYWORD"
NFixed(params) ==
    Cardinality({i \in 1..Len(params) : params[i].kind = "POSITIONAL_OR_KEYWORD"})

\* The annotations of a member's parameters, resolved in its class.
ResolvedIn(cls, params) ==
    [i \in 1..Len(params) |->
         ResolveTypeAnnotation(params[i].ann, cls.parameters, ClsTypeAndName(cls)).val]

\* The declaration registered for member m of cls.
MemberDecl(cls, m) ==
    LET ref == IF m.name = "m" \/ m.name = "k" THEN MethodRef(cls.name, m.name)
               ELSE ClassMethodRef(cls.name, m.name)
    IN  {f.decl : f \in {g \in Decl.fns : g.ref = ref}}

----------------------------------------------------------------------------
(* Type variables.                                                         *)

\* An annotation that mentions a type variable.
RECURSIVE MentionsTypeVar(_)
MentionsTypeVar(ann) ==
    \/ ann.k = "TypeVar"
    \/ \E i \in 1..Len(ann.args) : MentionsTypeVar(ann.args[i])

\* A type reference with a ClassTypeVarRef in it.
RECURSIVE HasPlaceholder(_)
HasPlaceholder(tr) ==
    \/ tr.k = "ClassTypeVarRef"
    \/ \E i \in 1..Len(tr.args) : HasPlaceholder(tr.args[i])

IsConstantRef(ref) == ref.kind \in {"Constant", "ClassVariable"}

\* The function commands of a batch that declare a constant or a class
\* variable of registry d.
ConstantCmds(cmds, d) ==
    {cmds[i] : i \in {j \in 1..Len(cmds) :
                        /\ cmds[j].cmd = "Function"
                        /\ \E e \in d.egg : e.egg = cmds[j].name /\ IsConstantRef(e.ref)}}

\* C12: constants and class variables are declared, and sent to the
\* engine, with types free of ClassTypeVarRef, an annotation that mentions
\* a type variable being refused; and a function with a merge function is
\* registered only if its return type, the type of the merge variables old
\* and new, is free of ClassTypeVarRef.
C12_NoTypeVarReachesEngine ==
    [][/\ \A f \in declObjs'[modDecl'].fns :
              IsConstantRef(f.ref) => ~HasPlaceholder(f.decl.return_type)
       /\ \A c \in ConstantCmds(sent', declObjs'[modDecl']) :
              ~HasPlaceholder(c.decl.return_type)
       /\ (lastOp'.op = "constant" /\ MentionsTypeVar(lastOp'.arg))
              => /\ err' # "ok"
                 /\ declObjs' = declObjs
                 /\ sent' = <<>>
       /\ lastOp'.op = "class_"
              => LET cls == lastOp'.arg
                 IN  /\ (\E i \in 1..Len(cls.classvars) :
                             MentionsTypeVar(cls.classvars[i][2]))
                            => /\ err' # "ok"
                               /\ ConstantCmds(sent', declObjs'[modDecl']) = {}
                     /\ err' = "ok"
                            => \A i \in 1..Len(cls.methods) :
                                   cls.methods[i].fn.merge =>
                                       \A decl \in {f.decl : f \in
                                               {g \in declObjs'[modDecl'].fns :
                                                    /\ g.ref.cls = cls.name
                                                    /\ g.ref.name = cls.methods[i].name}} :
                                           ~HasPlaceholder(decl.return_type)]_vars

\* A generic class whose class variable is annotated with the class applied
\* to its type variable: refused after the sort was declared.
C12_Witness ==
    /\ lastOp.op = "class_"
    /\ lastOp.arg.parameters # <<>>
    /\ lastOp.arg.classvars = <<(<<"v", GenericAlias("A", <<TypeVarObj("T")>>)>>)>>
    /\ err = "ValueError"
    /\ \E srt \in Decl.sorts : srt.name = "A"
    /\ \A f \in Decl.fns : ~IsConstantRef(f.ref)

----------------------------------------------------------------------------
(* C14: Set and Delete with a target that is not a call.                   *)

IsSetOrDelete(a) == a.k \in {"Set", "Delete"}

\* The target of a Set / Delete object: egraph.py stores the declaration,
\* registry.py the expression object.
TargetOf(a) == IF IsBaseExpr(a.args[1]) THEN expr_to_decl(a.args[1]) ELSE a.args[1]
IsCall(decl) == decl.k = "CallDecl"

\* The expression the last delete / set_ call was given as its target.
BuildTarget == IF lastOp.op \in {"delete", "registry.delete"} THEN lastOp.arg ELSE lastOp.arg[1]

\* Some action of a registry.py rule is a Set / Delete on a non-call.
HasNonCallAction(r) ==
    \E i \in 1..Len(r.header) :
        /\ ~IsBaseExpr(r.header[i])
        /\ IsSetOrDelete(r.header[i])
        /\ ~IsCall(TargetOf(r.header[i]))

----------------------------------------------------------------------------
(* C15: the Eq fact built by eq(expr).to(...).                             *)

\* The expressions of an Eq as declarations, whichever package built it.
EqDecls(eq) ==
    [i \in 1..Len(eq.args) |->
        IF IsBaseExpr(eq.args[i]) THEN expr_to_decl(eq.args[i]) ELSE eq.args[i]]

\* C15: every Eq fact produced by eq(expr).to(...) holds at least two
\* expressions: the builder's expression, then the given ones in order.
\* (lastOp.arg is the builder's expression followed by the arguments of to.)
C15_EqHasTwoExpressions ==
    lastOp.op \in {"eq", "registry.eq"} /\ err = "ok" =>
        /\ returned.k = "Eq"
        /\ Len(returned.args) >= 2
        /\ EqDecls(returned) = [i \in 1..Len(lastOp.arg) |-> expr_to_decl(lastOp.arg[i])]

----------------------------------------------------------------------------
(* C16: the Rule built by rule(facts...).then(actions...).                 *)

\* What a fact / an action given to the builder stands for: a bare
\* expression is the relation fact / the Eval action of its declaration.
AsFact(f) == IF f.k = "RuntimeExpr" THEN ExprFact(f.args[1]) ELSE f
AsAction(a) == IF a.k = "RuntimeExpr" THEN ExprAction(a.args[1]) ELSE a

\* The declaration registry.py makes of a fact / an action that converts.
AsFactDecl(f) == IF f.k = "RuntimeExpr" THEN f.args[1] ELSE EqDecl(EqDecls(f))
AsActionDecl(a) ==
    IF a.k = "RuntimeExpr" THEN a.args[1]
    ELSE IF a.k = "Delete" THEN DeleteDecl(TargetOf(a))
    ELSE SetDecl(TargetOf(a), expr_to_decl(a.args[2]))

\* C16: rule(facts...).then(actions...) builds a Rule whose facts are the
\* given facts in order and whose actions are the given actions in order, a
\* bare expression standing for its relation fact or Eval action, in the
\* given ruleset or in the unnamed one ("") when none is given.  In
\* registry.py, which has no rulesets, the same holds of if_(...).then(...)
\* and of the declaration the rule converts to.
C16_RuleThen ==
    /\ lastOp.op = "rule" =>
           /\ err = "ok"
           /\ returned.k = "Rule"
           /\ Len(returned.body) = Len(lastOp.arg.facts)
           /\ \A i \in 1..Len(returned.body) : returned.body[i] = AsFact(lastOp.arg.facts[i])
           /\ Len(returned.head) = Len(lastOp.arg.actions)
           /\ \A i \in 1..Len(returned.head) :
                  returned.head[i] = AsAction(lastOp.arg.actions[i])
           /\ returned.ruleset =
                  (IF lastOp.arg.ruleset = None THEN "" ELSE lastOp.arg.ruleset.name)
    /\ lastOp.op = "registry.if_" =>
           /\ err = "ok"
           /\ returned.k = "Rule"
           /\ returned.body = lastOp.arg.facts
           /\ returned.header = lastOp.arg.actions
    /\ lastOp.op = "registry.Rule._to_decl" /\ err = "ok" =>
           /\ returned.k = "RuleDecl"
           /\ Len(returned.body) = Len(lastOp.arg.body)
           /\ \A i \in 1..Len(returned.body) :
                  returned.body[i] = AsFactDecl(lastOp.arg.body[i])
           /\ Len(returned.header) = Len(lastOp.arg.header)
           /\ \A i \in 1..Len(returned.header) :
                  returned.header[i] = AsActionDecl(lastOp.arg.header[i])

\* A rule has been built in a named ruleset from two different facts and
\* two different actions, with a bare expression among each.
C16_Witness ==
    /\ lastOp.op = "rule"
    /\ lastOp.arg.ruleset # None
    /\ Len(lastOp.arg.facts) = 2
    /\ lastOp.arg.facts[1] # lastOp.arg.facts[2]
    /\ \E i \in 1..2 : lastOp.arg.facts[i].k = "RuntimeExpr"
    /\ Len(lastOp.arg.actions) = 2
    /\ lastOp.arg.actions[1] # lastOp.arg.actions[2]
    /\ \E i \in 1..2 : lastOp.arg.actions[i].k = "RuntimeExpr"
    /\ returned.k = "Rule"

----------------------------------------------------------------------------
(* C13: a rule with a variable that has no declaration.                    *)

\* A parameter of the generator has no annotation: the variable it stands
\* for has a name and no type.
HasUndeclared(gen) == \E i \in 1..Len(gen.params) : gen.params[i].ann = Empty

\* The step is a register call, on the EGraph or on a module, of a
\* generator.  (Creating a module is the one step that leaves lastOp alone.)
RegisterStep ==
    /\ lastOp'.op \in {"register", "Module.register"}
    /\ Len(mods') = Len(mods)
    /\ IsFunctionType(lastOp'.arg)

\* C13: registering rules in which a variable is used without a name+type
\* declaration (and, past the first variable, without a fact that binds it)
\* fails at registration, with nothing sent to the engine and nothing
\* appended to the module.
C13_UndeclaredVariableRejected ==
    [][RegisterStep /\ HasUndeclared(lastOp'.arg) =>
           /\ err' \in {"KeyError", "TypeError"}
           /\ sent' = <<>>
           /\ batches' = <<>>
           /\ egraph' = egraph
           /\ mods' = mods]_vars

\* A register call with an undeclared variable has failed on a session that
\* holds a rule registered before.
C13_Witness ==
    /\ lastOp.op = "register"
    /\ IsFunctionType(lastOp.arg)
    /\ HasUndeclared(lastOp.arg)
    /\ err = "KeyError"
    /\ \E c \in egraph.cur : c.cmd = "Rule"

----------------------------------------------------------------------------
(* C17: one batch of commands per call.                                    *)

\* The calls of the claim; constructing the EGraph is not one of them.
MutatingCalls ==
    {"class_", "function", "relation", "constant", "define", "ruleset", "register",
     "run", "check", "extract", "extract_multiple", "simplify", "push", "pop"}

\* C17: every mutating call on a live EGraph results in exactly one batch of
\* commands being sent to the engine, and a failed call sends nothing again:
\* a call that returns has made one run_program call, a call that raises at
\* most one.
C17_OneBatchPerCall ==
    lastOp.op \in MutatingCalls =>
        IF err = "ok" THEN Len(batches) = 1 ELSE Len(batches) <= 1

----------------------------------------------------------------------------
(* C18: run, extract, extract_multiple and simplify need a report.         *)

Returned == returned.k # "None"
ExtractCalls == {"extract", "extract_multiple", "simplify"}
Held(report) == report.k # "None"

\* C18: run() returns only if the engine holds a run report after the
\* schedule command, and what it returns is that report; extract(),
\* extract_multiple() and simplify() return only if the engine holds an
\* extract report after their command.  Without the report the call raises
\* and returns nothing.
C18_ReportOrError ==
    /\ lastOp.op = "run" =>
           /\ err = "ok" => Returned /\ Held(reports.run) /\ returned = reports.run
           /\ ~Held(reports.run) => err \in {"ValueError", "EggSmolError"} /\ ~Returned
    /\ lastOp.op \in ExtractCalls =>
           /\ err = "ok" => Returned /\ Held(reports.extract)
           /\ ~Held(reports.extract) => err \in {"ValueError", "EggSmolError"} /\ ~Returned

\* The engine ran a schedule and holds no run report: run() has raised.
C18_Witness ==
    /\ lastOp.op = "run"
    /\ \E c \in egraph.cur : c.cmd = "RunSchedule"
    /\ ~Held(reports.run)
    /\ err = "ValueError"

----------------------------------------------------------------------------
(* C20: declarations and module commands are append-only.                  *)

\* Every sort, callable declaration and engine name of d is in e unchanged.
DeclWithin(d, e) == d.sorts \subseteq e.sorts /\ d.fns \subseteq e.fns /\ d.egg \subseteq e.egg

IsPrefix(s, t) == Len(s) <= Len(t) /\ SubSeq(t, 1, Len(s)) = s

\* C20: apart from pop(), no step removes or changes a registered sort or
\* callable of the session's declarations, and no step at all removes or
\* changes a command a module has collected: a module's command list after
\* the step begins with the list before it.
C20_AppendOnly ==
    [][/\ lastOp'.op # "pop" => DeclWithin(declObjs[modDecl], declObjs'[modDecl'])
       /\ Len(mods) <= Len(mods')
       /\ \A m \in 1..Len(mods) : IsPrefix(mods[m].cmds, mods'[m].cmds)]_vars

\* The session has declared a sort and a callable, and a module has
\* collected commands in two or more registrations.
C20_Witness ==
    /\ declObjs[modDecl].sorts # {}
    /\ declObjs[modDecl].fns # {}
    /\ \E m \in 1..Len(mods) : Len(mods[m].cmds) >= 2 /\ mods[m].hist # <<>>


----------------------------------------------------------------------------
(* The context manager.                                                    *)

WithStep == lastOp'.op = "with"

NumCalls(calls, cmd) == Cardinality({i \in 1..Len(calls) : calls[i] = <<cmd>>})

HasRaise(stmts) == \E i \in 1..Len(stmts) : stmts[i].op = "raise"

\* C21: a `with` block on an EGraph sends exactly one Push, on entry, and
\* exactly one Pop, on exit, also when the body raises; an exception of the
\* body reaches the caller; after the block the scope stack and the
\* engine's checkpoints have the depth they had before it.
C21_WithBlockBalanced ==
    [][WithStep =>
         /\ NumCalls(batches', PushCmd) = 1
         /\ NumCalls(batches', PopCmd) = 1
         /\ batches'[1] = <<PushCmd>>
         /\ batches'[Len(batches')] = <<PopCmd>>
         /\ HasRaise(lastOp'.arg) => err' # "ok"
         /\ (lastOp'.arg # <<>> /\ lastOp'.arg[1].op = "raise") => err' = "BodyError"
         /\ declStack' = declStack
         /\ Len(egraph'.stack) = Len(egraph.stack)]_vars

\* A block inside a push scope whose body registered something and then
\* raised.
C21_Witness ==
    /\ lastOp.op = "with"
    /\ err = "BodyError"
    /\ Len(batches) >= 3
    /\ Len(declStack) >= 1


----------------------------------------------------------------------------
(* The order of a class's commands.                                        *)

\* The engine names of a class's commands in class-body order: the sort,
\* the class variables, the methods.
ClassCommandNames(cls) ==
    <<EggName("", cls.name)>>
    \o [i \in 1..Len(cls.classvars) |-> EggName(cls.name, cls.classvars[i][1])]
    \o [i \in 1..Len(cls.methods) |-> EggName(cls.name, cls.methods[i].name)]

SentNames == [i \in 1..Len(sent) |-> sent[i].name]

NewClassCall == lastOp.op = "class_" /\ sent # <<>>

\* C22: the commands of a class_ call are the sort command, then the
\* class-variable constants, then the methods in class-body order (a prefix
\* of that list when a member fails); every function command of the call
\* follows the sort command.
C22_SortThenClassVarsThenMethods ==
    NewClassCall =>
        /\ Len(sent) <= Len(ClassCommandNames(lastOp.arg))
        /\ SentNames = SubSeq(ClassCommandNames(lastOp.arg), 1, Len(sent))
        /\ err = "ok" => Len(sent) = Len(ClassCommandNames(lastOp.arg))
        /\ sent[1] = SortCmd(EggName("", lastOp.arg.name))
        /\ \A i \in 2..Len(sent) : sent[i].cmd = "Function"

\* A class with a class variable and two methods was registered.
C22_Witness ==
    /\ NewClassCall
    /\ err = "ok"
    /\ Len(lastOp.arg.classvars) = 1
    /\ Len(lastOp.arg.methods) = 2
    /\ Len(sent) = 4


----------------------------------------------------------------------------
(* pop() on the empty stack and the engine.                                *)

EmptyPopStep == lastOp'.op = "pop" /\ declStack = <<>> /\ err' # "ok"

\* C23 as stated: a pop() that fails on the empty scope stack sends no Pop
\* command to the engine, whose checkpoint state stays as it was.
C23_NoPopSentOnEmptyStack ==
    [][EmptyPopStep => sent' = <<>> /\ egraph' = egraph]_vars

\* C23: a pop() on the empty scope stack sends one Pop command to the
\* engine before it fails; the call raises the engine's error or, when the
\* engine lets the Pop pass, IndexError, and the session's stack and
\* working Declarations are the same after the failed call as before it.
C23_EmptyPopSentAndRejected ==
    [][(lastOp'.op = "pop" /\ declStack = <<>>) =>
         /\ sent' = <<PopCmd>>
         /\ batches' = <<(<<PopCmd>>)>>
         /\ err' \in {"EggSmolError", "IndexError"}
         /\ declStack' = declStack
         /\ modDecl' = modDecl]_vars

\* A pop() on the empty stack that the engine let pass: the Pop was sent
\* and the call failed on the session's own stack.
C23_Witness ==
    /\ lastOp.op = "pop"
    /\ err = "IndexError"
    /\ sent = <<PopCmd>>
    /\ declStack = <<>>
    /\ egraph.stack = <<>>


----------------------------------------------------------------------------
(* The scope stack and the engine's checkpoints.                           *)

----------------------------------------------------------------------------
(* A class_ call that fails on a member.                                   *)

FailedClassStep == lastOp'.op = "class_" /\ err' # "ok"

\* C25: a class_ call that fails while processing a member of the class
\* has sent no command for the class and leaves the Declarations as they
\* were before the call.
C25_ClassRegistrationAtomic ==
    [][FailedClassStep => sent' = <<>> /\ declObjs' = declObjs /\ egraph' = egraph]_vars

============================================================================
